---- MODULE Spec2Model ----
(***************************************************************************)
(* A model of the iced-sctk event loop (SctkEventLoop::run_return), the    *)
(* SctkState protocol handlers that fill its event sink, and the callback  *)
(* the application installs on it.                                         *)
(*                                                                         *)
(* Spec         the run loop, driving an arbitrary callback, with the      *)
(*              window / layer-surface / compositor handlers running       *)
(*              inside its two dispatch points.                            *)
(* SpecRun      the same loop driving the closure of application::run.     *)
(* SpecPopup    the popup registry of SctkState under arbitrary sequences  *)
(*              of popup handler calls.                                    *)
(*                                                                         *)
(* A panic (todo!(), unwrap() on None) ends the run: pc = "Panicked" and   *)
(* panic_site names the source line.                                       *)
(***************************************************************************)
EXTENDS Integers, Sequences, FiniteSets, TLC

VARIABLES
    pc,                         \* position inside run_return
    control_flow,               \* the local `control_flow`
    exit_code,                  \* Option<i32>: the value the loop breaks with
    instant_wakeup,             \* the local `instant_wakeup`
    dispatched,                 \* handlers run by the current dispatch_pending
    callback_kind,              \* "any": an arbitrary FnMut; "run": the closure of application::run
    windows,                    \* state.windows: id -> [current_size, last_configure, pending_requests]
    layer_surfaces,             \* state.layer_surfaces: id -> [current_size]
    popups,                     \* state.popups (a Vec in xdg_popup.rs): <<[id, parent, last_configure]>>
    window_compositor_updates,  \* state.window_compositor_updates: id -> SurfaceCompositorUpdate
    window_user_requests,       \* state.window_user_requests: id -> SurfaceUserRequest
    sctk_events,                \* state.sctk_events, the sink
    event_sink_back_buffer,     \* the local back buffer
    pending_user_events,        \* state.pending_user_events
    user_events,                \* the local `user_events` collected from the drain
    compositor_updates_local,   \* the local Vec `window_compositor_updates`
    user_requests_local,        \* the local Vec `window_user_requests`
    delivered,                  \* history: the callback's invocations in this iteration (and before the loop)
    swapped,                    \* history: what the last swap moved out of the sink
    last_error,                 \* history: the transport error that broke the loop
    panic_site,                 \* history: where the run panicked
    negotiated,                 \* history: id -> payload of the last configure handled for it
    probe_notified,             \* history: surfaces notified by a same-size configure
    done_count,                 \* history: popup id -> Done events appended for it
    last_closure,               \* history: the last done callback handled and the registry it found
    seats,                      \* state.seats (a Vec): <<[seat, kbd, ptr, kbd_focus, ptr_focus, ...]>>
    last_callback,              \* history: the last protocol callback observed and what it did
    instance,                   \* the locals of run_instance, with the history of what it did
    modifiers,                  \* the `modifiers` a caller of to_native keeps
    surface_ids,                \* the `surface_ids` table handed to to_native
    projected,                  \* history: the calls of to_native and what they returned
    n_inputs                    \* inputs the environment has made so far

vars == <<pc, control_flow, exit_code, instant_wakeup, dispatched, callback_kind,
          windows, layer_surfaces, popups, window_compositor_updates,
          window_user_requests, sctk_events, event_sink_back_buffer,
          pending_user_events, user_events, compositor_updates_local,
          user_requests_local, delivered, swapped, last_error, panic_site,
          negotiated, probe_notified, done_count, last_closure, seats,
          last_callback, instance, modifiers, surface_ids, projected, n_inputs>>

loop_vars == <<pc, control_flow, exit_code, instant_wakeup, dispatched,
               event_sink_back_buffer, user_events, compositor_updates_local,
               user_requests_local, delivered, swapped, last_error>>

-----------------------------------------------------------------------------
(* Bounds *)

\* inputs of the environment in one run: protocol messages dispatched, user
\* events sent through the proxy, commands of the UI update pass
MaxInputs == 3
\* The most actions one Command carries
MaxBatch == 3

-----------------------------------------------------------------------------
(* Values *)

None == <<>>
Some(x) == <<x>>
Unwrap(o) == o[1]
EmptyMap == [x \in {} |-> None]

WindowIds == {"W1"}
SeatIds == {"S1", "S2"}
Capabilities == {"Keyboard", "Pointer", "Touch"}

\* The frames of pointer events a wl_pointer delivers: [kind, surface] each
PointerFrames ==
    {<<[kind |-> "Enter", surface |-> "L1"], [kind |-> "Motion", surface |-> "L1"]>>,
     <<[kind |-> "Press", surface |-> "L1"]>>,
     <<[kind |-> "Leave", surface |-> "L1"]>>}
LayerIds == {"L1"}
PopupIds == {"P1", "P2", "P3"}
SurfaceIds == WindowIds \cup LayerIds \cup PopupIds

\* Two logical sizes and two scale factors: the code only compares sizes for
\* equality and multiplies them by the factor.
Sizes == {<<800, 40>>, <<400, 40>>}
Factors == {1, 2}
ExitCodes == {0, 1}
OsCodes == {5, 32}

Poll == [kind |-> "Poll", code |-> 0]
Wait == [kind |-> "Wait", code |-> 0]
WaitUntil == [kind |-> "WaitUntil", code |-> 0]
ExitWithCode(c) == [kind |-> "ExitWithCode", code |-> c]
ControlFlows == {Poll, Wait, WaitUntil} \cup {ExitWithCode(c) : c \in ExitCodes}

\* DispatchError of wayland-client, as run_return matches on it
DispatchErrors ==
    {[kind |-> "BadMessage", os |-> None], [kind |-> "Protocol", os |-> None]}
    \cup {[kind |-> "Io", os |-> o] : o \in {None} \cup {Some(c) : c \in OsCodes}}

\* calloop::Error, as raw_os_err matches on it
CalloopErrors ==
    {[kind |-> "InvalidToken", os |-> None], [kind |-> "OtherError", os |-> None]}
    \cup {[kind |-> "IoError", os |-> o] : o \in {None} \cup {Some(c) : c \in OsCodes}}

NoError == [kind |-> "NoError", os |-> None]

\* An event of IcedSctkEvent / SctkEvent; unused fields hold a fixed filler.
Ev(tag, id, cause, size, factor) ==
    [tag |-> tag, id |-> id, cause |-> cause, size |-> size, factor |-> factor,
     seat |-> "-"]
NewEvents(cause) == Ev("NewEvents", "-", cause, None, 0)
UserEvent == Ev("UserEvent", "-", "-", None, 0)
\* The k-th message handed to the proxy, as the callback gets it
UserEventNo(k) == Ev("UserEvent", "-", "-", None, k)
MainEventsCleared == Ev("MainEventsCleared", "-", "-", None, 0)
RedrawRequested(id) == Ev("RedrawRequested", id, "-", None, 0)
RedrawEventsCleared == Ev("RedrawEventsCleared", "-", "-", None, 0)
LoopDestroyed == Ev("LoopDestroyed", "-", "-", None, 0)
ScaleFactorChangedEv(id, f, inner) == Ev("ScaleFactorChanged", id, "-", Some(inner), f)
WindowConfigureEv(id, new_size) == Ev("WindowEvent", id, "Configure", new_size, 0)
WindowCloseEv(id) == Ev("WindowEvent", id, "Close", None, 0)
LayerConfigureEv(id, size) == Ev("LayerSurfaceEvent", id, "Configure", Some(size), 0)
LayerDoneEv(id) == Ev("LayerSurfaceEvent", id, "Done", None, 0)
PopupConfigureEv(id, configure, first) ==
    Ev("PopupEvent", id, IF first THEN "ConfigureFirst" ELSE "Configure", Some(configure), 0)
PopupDoneEv(id) == Ev("PopupEvent", id, "Done", None, 0)
DrawEv(id) == Ev("Draw", id, "-", None, 0)
SeatEv(seat, variant) == [Ev("SeatEvent", "-", variant, None, 0) EXCEPT !.seat = seat]
KeyboardEv(seat, variant, surface) ==
    [Ev("KeyboardEvent", surface, variant, None, 0) EXCEPT !.seat = seat]
PointerEv(seat, kind, surface) ==
    [Ev("PointerEvent", surface, kind, None, 0) EXCEPT !.seat = seat]

\* No done callback handled yet
NoClosure ==
    [popup |-> "-", before |-> <<>>, after |-> <<>>, events |-> <<>>, panicked |-> FALSE]

\* sctk Modifiers, as the set of the flags that are set
ModifierFlags == {"shift", "ctrl"}
DefaultModifiers == {}

\* The surfaces to_native is asked about, and SurfaceIdWrapper of each
NativeSurfaces == {"W1", "L1", "P1"}
Wrapper(id) ==
    [kind |-> IF id \in WindowIds THEN "Window"
              ELSE IF id \in LayerIds THEN "LayerSurface" ELSE "Popup",
     inner |-> id]

\* surface_ids as application::run builds it: the initial surface only
InitSurfaceIds == [l \in LayerIds |-> Wrapper(l)]

\* Positions a pointer event reports
Positions == {<<5, 5>>, <<20, 10>>}

\* A SctkEvent as to_native and run_instance read it; unused fields hold a fixed filler.
SctkEv(tag, variant, id, code, mods, resizing, new_size) ==
    [tag |-> tag, variant |-> variant, id |-> id, code |-> code, mods |-> mods,
     resizing |-> resizing, new_size |-> new_size]

\* The most events the list `events` of run_instance holds
MaxPending == 3

\* No MainEventsCleared handled yet
NoPartition == [before |-> <<>>, handed |-> <<>>, outcome |-> "-"]

\* The locals of run_instance when its loop starts, and an empty history
InitInstance ==
    [ids |-> LayerIds, surface_size |-> <<100, 100>>, viewport |-> <<1, 1>>,
     viewport_changed |-> FALSE, interface |-> TRUE, cursor_position |-> <<-1, -1>>,
     configures |-> <<>>, relayouts |-> 0, presented |-> <<>>,
     batch |-> <<>>, actions |-> <<>>, applied |-> <<>>, spawned |-> 0, sent |-> <<>>,
     id |-> "L1", kbd_surface_id |-> None, events |-> <<>>, partition |-> NoPartition]

\* No call of to_native yet
NoProjection ==
    [ev |-> [tag |-> "-", variant |-> "-", id |-> "-", code |-> 0, mods |-> {},
             resizing |-> FALSE, new_size |-> <<>>],
     result |-> None, panicked |-> FALSE,
     mods_before |-> {}, mods_seen |-> {}]

\* No protocol callback observed yet
NoCallback ==
    [handler |-> "-", target |-> "-",
     before |-> [windows |-> EmptyMap, layer_surfaces |-> EmptyMap, popups |-> <<>>,
                 seats |-> <<>>, negotiated |-> EmptyMap],
     after |-> [windows |-> EmptyMap, layer_surfaces |-> EmptyMap, popups |-> <<>>,
                seats |-> <<>>, negotiated |-> EmptyMap],
     appended |-> <<>>]

\* SurfaceCompositorUpdate::default() and SurfaceUserRequest::default()
DefaultCompositorUpdate == [configure |-> None, scale_factor |-> None, close_window |-> FALSE]
DefaultUserRequest == [redraw_requested |-> FALSE, refresh_frame |-> FALSE]

\* LogicalSize::to_physical
ToPhysical(size, factor) == <<size[1] * factor, size[2] * factor>>

\* All orders in which a HashMap with key set S can be iterated.
RECURSIVE Orders(_)
Orders(S) ==
    IF S = {} THEN {<<>>}
    ELSE UNION {{<<x>> \o o : o \in Orders(S \ {x})} : x \in S}

-----------------------------------------------------------------------------
(* Pure functions of event_loop/mod.rs *)

\* A sticky_exit_callback that hands the callback the loop's own control flow
StickyExitForgotten(cf, written) == written

\* The control flow run_return holds after sticky_exit_callback has invoked a
\* callback that left `written` in the reference it was handed.
sticky_exit_callback(cf, written) ==
    IF cf.kind = "ExitWithCode" THEN cf ELSE written

\* A raw_os_err that drops the OS error code
RawOsErrDropped(err) == 1

\* raw_os_err: the exit code of a failed event_loop.dispatch
raw_os_err(err) ==
    LET raw == IF err.kind = "IoError" THEN err.os ELSE None
    IN  IF raw = None THEN 1 ELSE Unwrap(raw)

\* The match on DispatchError after a failed dispatch_pending
DispatchErrorCode(error) ==
    LET raw == CASE error.kind = "BadMessage" -> None
                 [] error.kind = "Io" -> error.os
                 [] error.kind = "Protocol" -> None
    IN  IF raw = None THEN 1 ELSE Unwrap(raw)

\* A loop that reports every wakeup as a poll
StartCausesAlwaysPoll(cf) == {"Poll"}

\* The StartCause of the NewEvents delivered after a dispatch under control flow cf
StartCauses(cf) ==
    CASE cf.kind = "Poll" -> {"Poll"}
      [] cf.kind = "Wait" -> {"WaitCancelled"}
      [] cf.kind = "WaitUntil" -> {"WaitCancelled", "ResumeTimeReached"}
      [] OTHER -> {}

-----------------------------------------------------------------------------
(* The callback *)

\* An arbitrary FnMut: it may leave any ControlFlow in the reference it is handed.
AnyCallback(evt, cf) == {[panic |-> FALSE, cf |-> c] : c \in ControlFlows}

\* The events for which run_instance reaches todo!() (of those run_return delivers)
InstanceTodo(evt) ==
    evt.tag \in {"UserEvent", "ScaleFactorChanged", "WindowEvent", "PopupEvent",
                 "Draw", "LoopDestroyed"}
    \/ (evt.tag = "LayerSurfaceEvent" /\ evt.cause = "Done")

\* The closure application::run hands to run_return: it returns at once under
\* ExitWithCode, else sends the event, polls run_instance and writes Wait while the
\* future is pending and ExitWithCode(1) once it is ready. The poll's result is an
\* input of the closure; the only exit of run_instance's loop is the `break 'main`
\* of its MainEventsCleared branch, taken when should_exit() is true.
RunClosure(evt, cf) ==
    IF cf.kind = "ExitWithCode" THEN {[panic |-> FALSE, cf |-> cf]}
    ELSE IF InstanceTodo(evt) THEN {[panic |-> TRUE, cf |-> cf]}
    ELSE {[panic |-> FALSE, cf |-> Wait]}
         \cup (IF evt.tag = "MainEventsCleared"
               THEN {[panic |-> FALSE, cf |-> ExitWithCode(1)]} ELSE {})

CallbackOutcomes(evt, cf) ==
    IF callback_kind = "run" THEN RunClosure(evt, cf) ELSE AnyCallback(evt, cf)

\* One invocation of the callback from run_return at step `step`: through
\* sticky_exit_callback when `sticky`, directly otherwise.
Invoke(step, evt, sticky, next) ==
    \E o \in CallbackOutcomes(evt, control_flow) :
        /\ delivered' = Append(delivered,
                                [step |-> step, ev |-> evt,
                                 exiting |-> control_flow.kind = "ExitWithCode"])
        /\ IF o.panic
           THEN /\ pc' = "Panicked"
                /\ panic_site' = "application.rs:todo"
                /\ control_flow' = control_flow
           ELSE /\ pc' = next
                /\ panic_site' = panic_site
                /\ control_flow' = IF sticky
                                   THEN sticky_exit_callback(control_flow, o.cf)
                                   ELSE o.cf

Panic(site) ==
    /\ pc' = "Panicked"
    /\ panic_site' = site
    /\ UNCHANGED <<control_flow, delivered>>

-----------------------------------------------------------------------------
(* Variable groups *)

registry_vars == <<windows, layer_surfaces, popups>>
buffer_vars == <<window_compositor_updates, window_user_requests>>
popup_hist == <<done_count, last_closure>>
config_hist == <<negotiated, probe_notified>>
counters == <<n_inputs>>
locals == <<user_events, compositor_updates_local, user_requests_local>>
break_vars == <<exit_code, last_error>>
seat_vars == <<seats, last_callback>>
app_vars == <<instance, modifiers, surface_ids, projected>>

-----------------------------------------------------------------------------
(* Init: the state SctkEventLoop::new leaves and the entry of run_return *)

\* `wins` are the windows the application has created before the loop is looked
\* at: each has its record and both of its update buffers, as CreateWindow leaves
\* them.
InitState(kind, wins) ==
    /\ control_flow = Poll
    /\ exit_code = None
    /\ instant_wakeup = FALSE
    /\ dispatched = 0
    /\ callback_kind = kind
    /\ windows \in [wins -> {[current_size |-> Some(z), last_configure |-> None,
                            pending_requests |-> <<>>] : z \in Sizes}]
    /\ layer_surfaces = [l \in LayerIds |-> [current_size |-> None, last_configure |-> None]]
    /\ popups = <<>>
    /\ window_compositor_updates = [w \in wins |-> DefaultCompositorUpdate]
    /\ window_user_requests = [w \in wins |-> DefaultUserRequest]
    /\ sctk_events = <<>>
    /\ event_sink_back_buffer = <<>>
    /\ pending_user_events = <<>>
    /\ user_events = <<>>
    /\ compositor_updates_local = <<>>
    /\ user_requests_local = <<>>
    /\ delivered = <<>>
    /\ swapped = <<>>
    /\ last_error = NoError
    /\ panic_site = "-"
    /\ negotiated = [s \in SurfaceIds |-> None]
    /\ probe_notified = {}
    /\ done_count = [p \in PopupIds |-> 0]
    /\ last_closure = NoClosure
    /\ seats = <<>>
    /\ last_callback = NoCallback
    /\ instance = InitInstance
    /\ modifiers = DefaultModifiers
    /\ surface_ids = InitSurfaceIds
    /\ projected = NoProjection
    /\ n_inputs = 0

InitRest(kind) == InitState(kind, {})

InitWith(kind) == pc = "Start" /\ InitRest(kind)

\* run_return is entered with an arbitrary callback
Init == InitWith("any")

\* run_return is entered by application::run
InitRun == InitWith("run")

-----------------------------------------------------------------------------
(* run_return *)

hist_vars == <<negotiated, probe_notified, done_count, last_closure>>

\* callback(NewEvents(Init)) before the loop is entered
Start ==
    /\ pc = "Start"
    /\ Invoke("Init", NewEvents("Init"), FALSE, "Flush")
    /\ UNCHANGED <<instant_wakeup, dispatched, callback_kind, seat_vars, app_vars, registry_vars, buffer_vars,
                   sctk_events, event_sink_back_buffer, pending_user_events, locals,
                   swapped, break_vars, hist_vars, counters>>

\* The top of the loop: connection.flush(), then dispatch_pending starts. The
\* history of an iteration starts empty, but for the first, which starts with the
\* NewEvents(Init) delivered before the loop.
Flush ==
    /\ pc = "Flush"
    /\ pc' = "DispatchPending"
    /\ delivered' = IF delivered # <<>> /\ delivered[Len(delivered)].step = "Init"
                    THEN delivered ELSE <<>>
    /\ swapped' = <<>>
    /\ dispatched' = 0
    /\ instant_wakeup' = FALSE
    /\ UNCHANGED <<control_flow, callback_kind, seat_vars, app_vars, registry_vars, buffer_vars,
                   sctk_events, event_sink_back_buffer, pending_user_events, locals,
                   break_vars, panic_site, hist_vars, counters>>

\* queue.dispatch_pending returns Ok(dispatched)
DispatchPendingOk ==
    /\ pc = "DispatchPending"
    /\ instant_wakeup' = (dispatched > 0)
    /\ dispatched' = 0
    /\ pc' = "Match"
    /\ UNCHANGED <<control_flow, callback_kind, seat_vars, app_vars, registry_vars, buffer_vars,
                   sctk_events, event_sink_back_buffer, pending_user_events, locals,
                   delivered, swapped, break_vars, panic_site, hist_vars, counters>>

\* queue.dispatch_pending returns Err(error): break with the error's code
DispatchPendingErr ==
    /\ pc = "DispatchPending"
    /\ \E error \in DispatchErrors :
        /\ exit_code' = Some(DispatchErrorCode(error))
        /\ last_error' = error
    /\ pc' = "LoopDestroyed"
    /\ UNCHANGED <<control_flow, instant_wakeup, dispatched, callback_kind, seat_vars, app_vars, registry_vars,
                   buffer_vars, sctk_events, event_sink_back_buffer, pending_user_events,
                   locals, delivered, swapped, panic_site, hist_vars, counters>>

\* A match that breaks with 0 whatever code was asked for
MatchControlFlowBreaksZero ==
    /\ pc = "Match"
    /\ IF control_flow.kind = "ExitWithCode"
       THEN /\ exit_code' = Some(0)
            /\ pc' = "LoopDestroyed"
       ELSE /\ exit_code' = exit_code
            /\ pc' = "EventLoopDispatch"
    /\ UNCHANGED <<control_flow, instant_wakeup, dispatched, callback_kind, seat_vars, app_vars, registry_vars,
                   buffer_vars, sctk_events, event_sink_back_buffer, pending_user_events,
                   locals, delivered, swapped, last_error, panic_site, hist_vars, counters>>

\* match control_flow: ExitWithCode(code) => break code; else the dispatch begins
MatchControlFlow ==
    /\ pc = "Match"
    /\ IF control_flow.kind = "ExitWithCode"
       THEN /\ exit_code' = Some(control_flow.code)
            /\ pc' = "LoopDestroyed"
       ELSE /\ exit_code' = exit_code
            /\ pc' = "EventLoopDispatch"
    /\ UNCHANGED <<control_flow, instant_wakeup, dispatched, callback_kind, seat_vars, app_vars, registry_vars,
                   buffer_vars, sctk_events, event_sink_back_buffer, pending_user_events,
                   locals, delivered, swapped, last_error, panic_site, hist_vars, counters>>

\* self.event_loop.dispatch returns Ok: callback(NewEvents(cause)). The dispatch's
\* timeout is the last use of instant_wakeup.
EventLoopDispatchOk ==
    /\ pc = "EventLoopDispatch"
    /\ \E cause \in StartCauses(control_flow) :
        Invoke("NewEvents", NewEvents(cause), FALSE, "UserEvents")
    /\ instant_wakeup' = FALSE
    /\ UNCHANGED <<dispatched, callback_kind, seat_vars, app_vars, registry_vars, buffer_vars,
                   sctk_events, event_sink_back_buffer, pending_user_events, locals,
                   swapped, break_vars, hist_vars, counters>>

\* self.event_loop.dispatch returns Err(error): break raw_os_err(error)
EventLoopDispatchErr ==
    /\ pc = "EventLoopDispatch"
    /\ \E error \in CalloopErrors :
        /\ exit_code' = Some(raw_os_err(error))
        /\ last_error' = error
    /\ pc' = "LoopDestroyed"
    /\ UNCHANGED <<control_flow, instant_wakeup, dispatched, callback_kind, seat_vars, app_vars, registry_vars,
                   buffer_vars, sctk_events, event_sink_back_buffer, pending_user_events,
                   locals, delivered, swapped, panic_site, hist_vars, counters>>

\* The calloop channel source: a user event sent through the proxy is pushed. The
\* channel is first in, first out, so the events are pushed in the order they were
\* sent; each carries the number of the input it was.
UserEventSource ==
    /\ pc = "EventLoopDispatch"
    /\ n_inputs < MaxInputs
    /\ n_inputs' = n_inputs + 1
    /\ pending_user_events' = Append(pending_user_events, UserEventNo(n_inputs + 1))
    /\ UNCHANGED <<pc, control_flow, instant_wakeup, dispatched, callback_kind, seat_vars, app_vars,
                   registry_vars, buffer_vars, sctk_events, event_sink_back_buffer, locals,
                   delivered, swapped, break_vars, panic_site, hist_vars>>

\* A collect that copies the pending user events and leaves them pending
CollectUserEventsKeepsPending ==
    /\ pc = "UserEvents"
    /\ user_events' = pending_user_events
    /\ pending_user_events' = pending_user_events
    /\ pc' = "UserEventsLoop"
    /\ UNCHANGED <<control_flow, instant_wakeup, dispatched, callback_kind, seat_vars, app_vars, registry_vars,
                   buffer_vars, sctk_events, event_sink_back_buffer,
                   compositor_updates_local, user_requests_local, delivered, swapped,
                   break_vars, panic_site, hist_vars, counters>>

\* let user_events = pending_user_events.drain(..).collect()
CollectUserEvents ==
    /\ pc = "UserEvents"
    /\ user_events' = pending_user_events
    /\ pending_user_events' = <<>>
    /\ pc' = "UserEventsLoop"
    /\ UNCHANGED <<control_flow, instant_wakeup, dispatched, callback_kind, seat_vars, app_vars, registry_vars,
                   buffer_vars, sctk_events, event_sink_back_buffer,
                   compositor_updates_local, user_requests_local, delivered, swapped,
                   break_vars, panic_site, hist_vars, counters>>

\* for user_event in user_events { sticky_exit_callback(UserEvent(user_event)) }
DeliverUserEvent ==
    /\ pc = "UserEventsLoop"
    /\ user_events # <<>>
    /\ Invoke("UserEvents", Head(user_events), TRUE, "UserEventsLoop")
    /\ user_events' = Tail(user_events)
    /\ UNCHANGED <<instant_wakeup, dispatched, callback_kind, seat_vars, app_vars, registry_vars, buffer_vars,
                   sctk_events, event_sink_back_buffer, pending_user_events,
                   compositor_updates_local, user_requests_local, swapped, break_vars,
                   hist_vars, counters>>

\* window_compositor_updates.clear(); .extend(state.window_compositor_updates
\*   .iter_mut().map(|(wid, u)| (wid.clone(), mem::take(u))))
TakeCompositorUpdates ==
    /\ pc = "UserEventsLoop"
    /\ user_events = <<>>
    /\ \E order \in Orders(DOMAIN window_compositor_updates) :
        compositor_updates_local' =
            [i \in 1..Len(order) |->
                [id |-> order[i], update |-> window_compositor_updates[order[i]]]]
    /\ window_compositor_updates' =
            [w \in DOMAIN window_compositor_updates |-> DefaultCompositorUpdate]
    /\ pc' = "WindowScale"
    /\ UNCHANGED <<control_flow, instant_wakeup, dispatched, callback_kind, seat_vars, app_vars, registry_vars,
                   window_user_requests, sctk_events, event_sink_back_buffer,
                   pending_user_events, user_events, user_requests_local, delivered,
                   swapped, break_vars, panic_site, hist_vars, counters>>

\* Whether the configure branch reports a resize: physical_size is None when no
\* scale factor is pending and the size equals the window's current size.
ResizeNeeded(scale_factor, window_size, size) ==
    ~(scale_factor = None /\ window_size = size)

\* The head of the local Vec under iteration
CurrentUpdate == Head(compositor_updates_local)

\* A scale-factor branch that goes on to the configure branch without a delivery
ApplyScaleFactorSilent ==
    /\ pc = "WindowScale"
    /\ compositor_updates_local # <<>>
    /\ pc' = "WindowConfigure"
    /\ UNCHANGED <<control_flow, delivered, panic_site, windows>>
    /\ UNCHANGED <<exit_code, instant_wakeup, dispatched, callback_kind, seat_vars, app_vars, layer_surfaces,
                   popups, buffer_vars, sctk_events, event_sink_back_buffer,
                   pending_user_events, locals, swapped, last_error, hist_vars, counters>>

\* for (window_id, update) in ...: if let Some(scale_factor) = update.scale_factor
ApplyScaleFactor ==
    /\ pc = "WindowScale"
    /\ compositor_updates_local # <<>>
    /\ LET id == CurrentUpdate.id
           u == CurrentUpdate.update
       IN  IF u.scale_factor = None
           THEN /\ pc' = "WindowConfigure"
                /\ UNCHANGED <<control_flow, delivered, panic_site, windows>>
           ELSE IF id \notin DOMAIN windows
           THEN Panic("mod.rs:367") /\ UNCHANGED windows
           ELSE IF windows[id].current_size = None
           THEN Panic("mod.rs:368") /\ UNCHANGED windows
           ELSE LET size == Unwrap(windows[id].current_size)
                    window_size ==
                        IF u.configure # None /\ Unwrap(u.configure).new_size # None
                        THEN Unwrap(Unwrap(u.configure).new_size)
                        ELSE size
                    factor == Unwrap(u.scale_factor)
                IN  /\ windows' = [windows EXCEPT ![id].current_size = Some(window_size)]
                    /\ IF u.configure = None
                       THEN Panic("mod.rs:380")
                       ELSE Invoke("CompositorUpdates",
                                   ScaleFactorChangedEv(id, factor,
                                                        ToPhysical(window_size, factor)),
                                   TRUE, "WindowConfigure")
    /\ UNCHANGED <<exit_code, instant_wakeup, dispatched, callback_kind, seat_vars, app_vars, layer_surfaces,
                   popups, buffer_vars, sctk_events, event_sink_back_buffer,
                   pending_user_events, locals, swapped, last_error, hist_vars, counters>>

\* if let Some(configure) = update.configure.take()
ApplyConfigure ==
    /\ pc = "WindowConfigure"
    /\ LET id == CurrentUpdate.id
           u == CurrentUpdate.update
       IN  IF u.configure = None
           THEN /\ pc' = "WindowClose"
                /\ UNCHANGED <<control_flow, delivered, panic_site, windows,
                               window_user_requests, compositor_updates_local, negotiated>>
           ELSE /\ compositor_updates_local' =
                        [compositor_updates_local EXCEPT ![1].update.configure = None]
                /\ negotiated' = [negotiated EXCEPT ![id] = Some(Unwrap(u.configure).new_size)]
                /\ IF id \notin DOMAIN windows
                   THEN Panic("mod.rs:403") /\ UNCHANGED <<windows, window_user_requests>>
                   ELSE IF windows[id].current_size = None
                   THEN Panic("mod.rs:404") /\ UNCHANGED <<windows, window_user_requests>>
                   ELSE LET configure == Unwrap(u.configure)
                            window_size == Unwrap(windows[id].current_size)
                            size == IF configure.new_size # None
                                    THEN Unwrap(configure.new_size) ELSE window_size
                            resize == ResizeNeeded(u.scale_factor, window_size, size)
                        IN  /\ windows' = IF resize
                                          THEN [windows EXCEPT ![id].current_size = Some(size)]
                                          ELSE windows
                            /\ IF resize /\ u.scale_factor = None
                               THEN Panic("mod.rs:421") /\ UNCHANGED window_user_requests
                               ELSE IF id \notin DOMAIN window_user_requests
                               THEN Panic("mod.rs:441") /\ UNCHANGED window_user_requests
                               ELSE /\ window_user_requests' =
                                        [window_user_requests EXCEPT ![id].refresh_frame = FALSE]
                                    /\ IF resize
                                       THEN Invoke("CompositorUpdates",
                                                   WindowConfigureEv(id, configure.new_size),
                                                   TRUE, "WindowClose")
                                       ELSE /\ pc' = "WindowClose"
                                            /\ UNCHANGED <<control_flow, delivered, panic_site>>
    /\ UNCHANGED <<exit_code, instant_wakeup, dispatched, callback_kind, seat_vars, app_vars, layer_surfaces,
                   popups, window_compositor_updates, sctk_events, event_sink_back_buffer,
                   pending_user_events, user_events, user_requests_local, swapped,
                   last_error, probe_notified, popup_hist, counters>>

\* if update.close_window { sticky_exit_callback(WindowEvent Close) }; next window
ApplyClose ==
    /\ pc = "WindowClose"
    /\ IF CurrentUpdate.update.close_window
       THEN Invoke("CompositorUpdates", WindowCloseEv(CurrentUpdate.id), TRUE, "WindowScale")
       ELSE /\ pc' = "WindowScale"
            /\ UNCHANGED <<control_flow, delivered, panic_site>>
    /\ compositor_updates_local' = Tail(compositor_updates_local)
    /\ UNCHANGED <<exit_code, instant_wakeup, dispatched, callback_kind, seat_vars, app_vars, registry_vars,
                   buffer_vars, sctk_events, event_sink_back_buffer, pending_user_events,
                   user_events, user_requests_local, swapped, last_error, hist_vars, counters>>

\* std::mem::swap(&mut event_sink_back_buffer, &mut self.state.sctk_events)
SwapBuffers(back, sink) == [back |-> sink, sink |-> back]

SwapSink ==
    /\ pc = "WindowScale"
    /\ compositor_updates_local = <<>>
    /\ LET s == SwapBuffers(event_sink_back_buffer, sctk_events)
       IN  /\ event_sink_back_buffer' = s.back
           /\ sctk_events' = s.sink
           /\ swapped' = s.back
    /\ pc' = "DrainSink"
    /\ UNCHANGED <<control_flow, exit_code, instant_wakeup, dispatched, callback_kind, seat_vars, app_vars,
                   registry_vars, buffer_vars, pending_user_events, locals, delivered,
                   last_error, panic_site, hist_vars, counters>>

\* for event in event_sink_back_buffer.drain(..) { todo!(); }
DrainSink ==
    /\ pc = "DrainSink"
    /\ IF event_sink_back_buffer = <<>>
       THEN /\ pc' = "MainEventsCleared"
            /\ UNCHANGED <<control_flow, delivered, panic_site>>
       ELSE Panic("mod.rs:482")
    /\ UNCHANGED <<exit_code, instant_wakeup, dispatched, callback_kind, seat_vars, app_vars, registry_vars,
                   buffer_vars, sctk_events, event_sink_back_buffer, pending_user_events,
                   locals, swapped, last_error, hist_vars, counters>>

\* A loop that goes on to the redraw phase without announcing MainEventsCleared
MainEventsClearedSkipped ==
    /\ pc = "MainEventsCleared"
    /\ pc' = "TakeUserRequests"
    /\ UNCHANGED <<control_flow, exit_code, instant_wakeup, dispatched, callback_kind, seat_vars, app_vars,
                   registry_vars, buffer_vars, sctk_events, event_sink_back_buffer,
                   pending_user_events, locals, delivered, swapped, last_error,
                   panic_site, hist_vars, counters>>

\* sticky_exit_callback(MainEventsCleared)
DeliverMainEventsCleared ==
    /\ pc = "MainEventsCleared"
    /\ Invoke("MainEventsCleared", MainEventsCleared, TRUE, "TakeUserRequests")
    /\ UNCHANGED <<exit_code, instant_wakeup, dispatched, callback_kind, seat_vars, app_vars, registry_vars,
                   buffer_vars, sctk_events, event_sink_back_buffer, pending_user_events,
                   locals, swapped, last_error, hist_vars, counters>>

\* A take that copies the request buffers and leaves them as they are
TakeUserRequestsKeepsBuffers ==
    /\ pc = "TakeUserRequests"
    /\ \E order \in Orders(DOMAIN window_user_requests) :
        user_requests_local' =
            [i \in 1..Len(order) |->
                [id |-> order[i], request |-> window_user_requests[order[i]]]]
    /\ window_user_requests' = window_user_requests
    /\ pc' = "Redraw"
    /\ UNCHANGED <<control_flow, exit_code, instant_wakeup, dispatched, callback_kind, seat_vars, app_vars,
                   registry_vars, window_compositor_updates, sctk_events,
                   event_sink_back_buffer, pending_user_events, user_events,
                   compositor_updates_local, delivered, swapped, last_error, panic_site,
                   hist_vars, counters>>

\* window_user_requests.clear(); .extend(state.window_user_requests
\*   .iter_mut().map(|(wid, r)| (wid.clone(), mem::take(r))))
TakeUserRequests ==
    /\ pc = "TakeUserRequests"
    /\ \E order \in Orders(DOMAIN window_user_requests) :
        user_requests_local' =
            [i \in 1..Len(order) |->
                [id |-> order[i], request |-> window_user_requests[order[i]]]]
    /\ window_user_requests' = [w \in DOMAIN window_user_requests |-> DefaultUserRequest]
    /\ pc' = "Redraw"
    /\ UNCHANGED <<control_flow, exit_code, instant_wakeup, dispatched, callback_kind, seat_vars, app_vars,
                   registry_vars, window_compositor_updates, sctk_events,
                   event_sink_back_buffer, pending_user_events, user_events,
                   compositor_updates_local, delivered, swapped, last_error, panic_site,
                   hist_vars, counters>>

\* The step an invocation for a taken request is recorded under: which of the two
\* flags asked for it
RedrawStep(request) ==
    IF ~request.refresh_frame THEN "RedrawRequested"
    ELSE IF request.redraw_requested THEN "RefreshFrameAndRedraw"
    ELSE "RefreshFrame"

\* for (window_id, window_request) in window_user_requests.iter(): refresh_frame
\* forces redraw_requested; redraw_requested delivers RedrawRequested(window_id)
HandleRedraw ==
    /\ pc = "Redraw"
    /\ user_requests_local # <<>>
    /\ LET id == Head(user_requests_local).id
           r == Head(user_requests_local).request
       IN  IF r.refresh_frame /\ id \notin DOMAIN windows
           THEN Panic("mod.rs:513")
           ELSE IF r.refresh_frame \/ r.redraw_requested
           THEN Invoke(RedrawStep(r), RedrawRequested(id), TRUE, "Redraw")
           ELSE UNCHANGED <<pc, control_flow, delivered, panic_site>>
    /\ user_requests_local' = Tail(user_requests_local)
    /\ UNCHANGED <<exit_code, instant_wakeup, dispatched, callback_kind, seat_vars, app_vars, registry_vars,
                   buffer_vars, sctk_events, event_sink_back_buffer, pending_user_events,
                   user_events, compositor_updates_local, swapped, last_error, hist_vars,
                   counters>>

\* sticky_exit_callback(RedrawEventsCleared); the loop body ends
DeliverRedrawEventsCleared ==
    /\ pc = "Redraw"
    /\ user_requests_local = <<>>
    /\ Invoke("RedrawEventsCleared", RedrawEventsCleared, TRUE, "Flush")
    /\ UNCHANGED <<exit_code, instant_wakeup, dispatched, callback_kind, seat_vars, app_vars, registry_vars,
                   buffer_vars, sctk_events, event_sink_back_buffer, pending_user_events,
                   locals, swapped, last_error, hist_vars, counters>>

\* A run_return that returns without announcing LoopDestroyed
LoopDestroyedSkipped ==
    /\ pc = "LoopDestroyed"
    /\ pc' = "Returned"
    /\ UNCHANGED <<control_flow, exit_code, instant_wakeup, dispatched, callback_kind, seat_vars, app_vars,
                   registry_vars, buffer_vars, sctk_events, event_sink_back_buffer,
                   pending_user_events, locals, delivered, swapped, last_error,
                   panic_site, hist_vars, counters>>

\* callback(LoopDestroyed, &self.state, &mut control_flow); exit_code
DeliverLoopDestroyed ==
    /\ pc = "LoopDestroyed"
    /\ Invoke("LoopDestroyed", LoopDestroyed, FALSE, "Returned")
    /\ UNCHANGED <<exit_code, instant_wakeup, dispatched, callback_kind, seat_vars, app_vars, registry_vars,
                   buffer_vars, sctk_events, event_sink_back_buffer, pending_user_events,
                   locals, swapped, last_error, hist_vars, counters>>

-----------------------------------------------------------------------------
(* Protocol handlers of SctkState, run by dispatch_pending and event_loop.dispatch *)

\* The registry of SctkState, with the history of the sizes configured
Snapshot ==
    [windows |-> windows, layer_surfaces |-> layer_surfaces, popups |-> popups,
     seats |-> seats, negotiated |-> negotiated]

\* A handler call made by one of the two dispatches of an iteration
Dispatched(handler) ==
    /\ pc \in {"DispatchPending", "EventLoopDispatch"}
    /\ n_inputs < MaxInputs
    /\ n_inputs' = n_inputs + 1
    /\ dispatched' = IF pc = "DispatchPending" THEN dispatched + 1 ELSE dispatched
    /\ handler
    /\ UNCHANGED <<control_flow, exit_code, instant_wakeup, callback_kind,
                   event_sink_back_buffer, pending_user_events, locals, delivered,
                   swapped, last_error, app_vars>>

\* The handler call, not observed
InDispatch(handler) == Dispatched(handler) /\ UNCHANGED last_callback

\* The handler call, observed: the history keeps which callback ran, for which
\* object, the registry it found and left and the events it appended to the sink.
Callback(name, target, handler) ==
    /\ Dispatched(handler)
    /\ last_callback' =
           [handler |-> name, target |-> target, before |-> Snapshot,
            after |-> Snapshot',
            appended |-> SubSeq(sctk_events', Len(sctk_events) + 1, Len(sctk_events'))]

\* Whether a configure of `size` for surface `id` proposes nothing new: the size is
\* the one the surface already has and no scale-factor change is pending.
SameSizeConfigure(id, current, size) ==
    /\ current = Some(size)
    /\ (id \in DOMAIN window_compositor_updates
            => window_compositor_updates[id].scale_factor = None)

\* LayerShellHandler::configure
LayerConfigure(l, size) ==
    /\ IF l \in DOMAIN layer_surfaces
       THEN /\ sctk_events' = sctk_events \o <<LayerConfigureEv(l, size), DrawEv(l)>>
            /\ negotiated' = [negotiated EXCEPT ![l] = Some(size)]
            /\ probe_notified' = IF SameSizeConfigure(l, negotiated[l], size)
                                 THEN probe_notified \cup {l} ELSE probe_notified
       ELSE UNCHANGED <<sctk_events, negotiated, probe_notified>>
    /\ UNCHANGED <<pc, panic_site, seats, registry_vars, buffer_vars, popup_hist>>

\* A closed handler that pushes Done and forgets to remove the record
LayerClosedKeepsRecord(l) ==
    /\ IF l \in DOMAIN layer_surfaces
       THEN sctk_events' = Append(sctk_events, LayerDoneEv(l))
       ELSE UNCHANGED sctk_events
    /\ UNCHANGED <<pc, panic_site, seats, registry_vars, buffer_vars, config_hist,
                   popup_hist>>

\* LayerShellHandler::closed
LayerClosed(l) ==
    /\ IF l \in DOMAIN layer_surfaces
       THEN /\ layer_surfaces' = [x \in DOMAIN layer_surfaces \ {l} |-> layer_surfaces[x]]
            /\ sctk_events' = Append(sctk_events, LayerDoneEv(l))
       ELSE UNCHANGED <<layer_surfaces, sctk_events>>
    /\ UNCHANGED <<pc, panic_site, seats, windows, popups, buffer_vars, config_hist, popup_hist>>

\* WindowHandler::configure
WindowConfigure(w, new_size) ==
    /\ IF w \in DOMAIN windows
       THEN /\ sctk_events' = Append(sctk_events, WindowConfigureEv(w, new_size))
            /\ negotiated' = [negotiated EXCEPT ![w] = Some(new_size)]
            /\ probe_notified' =
                   IF new_size # None
                      /\ SameSizeConfigure(w, windows[w].current_size, Unwrap(new_size))
                   THEN probe_notified \cup {w} ELSE probe_notified
       ELSE UNCHANGED <<sctk_events, negotiated, probe_notified>>
    /\ UNCHANGED <<pc, panic_site, seats, registry_vars, buffer_vars, popup_hist>>

\* WindowHandler::request_close
WindowRequestClose(w) ==
    /\ IF w \in DOMAIN windows
       THEN /\ windows' = [x \in DOMAIN windows \ {w} |-> windows[x]]
            /\ sctk_events' = Append(sctk_events, WindowCloseEv(w))
       ELSE UNCHANGED <<windows, sctk_events>>
    /\ UNCHANGED <<pc, panic_site, seats, layer_surfaces, popups, buffer_vars, config_hist,
                   popup_hist>>

\* A scale_factor_changed that keeps the factor already pending
ScaleFactorChangedKeepsFirst(surface, new_factor) ==
    /\ IF /\ surface \in DOMAIN windows
          /\ surface \in DOMAIN window_compositor_updates
          /\ window_compositor_updates[surface].scale_factor = None
       THEN window_compositor_updates' =
                [window_compositor_updates EXCEPT ![surface].scale_factor = Some(new_factor)]
       ELSE UNCHANGED window_compositor_updates
    /\ UNCHANGED <<pc, panic_site, seats, registry_vars, window_user_requests, sctk_events,
                   config_hist, popup_hist>>

\* CompositorHandler::scale_factor_changed (the layer-surface and popup update maps
\* never hold an entry, so only the window branch can act)
ScaleFactorChanged(surface, new_factor) ==
    /\ IF surface \in DOMAIN windows /\ surface \in DOMAIN window_compositor_updates
       THEN window_compositor_updates' =
                [window_compositor_updates EXCEPT ![surface].scale_factor = Some(new_factor)]
       ELSE UNCHANGED window_compositor_updates
    /\ UNCHANGED <<pc, panic_site, seats, registry_vars, window_user_requests, sctk_events,
                   config_hist, popup_hist>>

\* CompositorHandler::frame
Frame(surface) ==
    /\ sctk_events' = Append(sctk_events, DrawEv(surface))
    /\ UNCHANGED <<pc, panic_site, seats, registry_vars, buffer_vars, config_hist, popup_hist>>

\* The protocol pushes a new configuration into a window's compositor-update
\* buffer (latest wins).
BufferConfigure(w, new_size) ==
    /\ w \in DOMAIN window_compositor_updates
    /\ window_compositor_updates' =
           [window_compositor_updates EXCEPT ![w].configure = Some([new_size |-> new_size])]
    /\ UNCHANGED <<pc, panic_site, seats, registry_vars, window_user_requests, sctk_events,
                   config_hist, popup_hist>>

\* The protocol pushes a close request into a window's compositor-update buffer.
BufferClose(w) ==
    /\ w \in DOMAIN window_compositor_updates
    /\ window_compositor_updates' =
           [window_compositor_updates EXCEPT ![w].close_window = TRUE]
    /\ UNCHANGED <<pc, panic_site, seats, registry_vars, window_user_requests, sctk_events,
                   config_hist, popup_hist>>

DispatchLayerConfigure == \E l \in LayerIds, size \in Sizes : InDispatch(LayerConfigure(l, size))
DispatchLayerClosed == \E l \in LayerIds : InDispatch(LayerClosed(l))
DispatchWindowConfigure ==
    \E w \in WindowIds, o \in {None} \cup {Some(z) : z \in Sizes} :
        InDispatch(WindowConfigure(w, o))
DispatchWindowRequestClose == \E w \in WindowIds : InDispatch(WindowRequestClose(w))
DispatchScaleFactorChanged ==
    \E x \in WindowIds \cup LayerIds, f \in Factors : InDispatch(ScaleFactorChanged(x, f))
DispatchFrame == \E x \in WindowIds \cup LayerIds : InDispatch(Frame(x))
DispatchBufferConfigure ==
    \E w \in WindowIds, o \in {None} \cup {Some(z) : z \in Sizes} :
        InDispatch(BufferConfigure(w, o))
DispatchBufferClose == \E w \in WindowIds : InDispatch(BufferClose(w))

-----------------------------------------------------------------------------
(* The UI update pass that runs inside MainEventsCleared *)

\* A create-window command: the record and both of its update buffers are
\* allocated; the creation code fixes the initial current_size.
CreateWindow(w, current_size) ==
    /\ pc = "MainEventsCleared"
    /\ n_inputs < MaxInputs
    /\ n_inputs' = n_inputs + 1
    /\ w \notin DOMAIN window_compositor_updates
    /\ windows' = [x \in DOMAIN windows \cup {w} |->
                      IF x = w THEN [current_size |-> current_size, last_configure |-> None,
                                     pending_requests |-> <<>>]
                      ELSE windows[x]]
    /\ window_compositor_updates' =
           [x \in DOMAIN window_compositor_updates \cup {w} |->
               IF x = w THEN DefaultCompositorUpdate ELSE window_compositor_updates[x]]
    /\ window_user_requests' =
           [x \in DOMAIN window_user_requests \cup {w} |->
               IF x = w THEN DefaultUserRequest ELSE window_user_requests[x]]
    /\ UNCHANGED <<loop_vars, callback_kind, seat_vars, app_vars, layer_surfaces, popups, sctk_events,
                   pending_user_events, panic_site, hist_vars>>

\* The UI layer requests a redraw or a frame refresh of a window. As in
\* handle_window_requests, whose call is commented out in run_return, only the
\* windows of the window map are gone through.
RequestRedraw(w, refresh) ==
    /\ pc = "MainEventsCleared"
    /\ n_inputs < MaxInputs
    /\ n_inputs' = n_inputs + 1
    /\ w \in DOMAIN windows
    /\ w \in DOMAIN window_user_requests
    /\ window_user_requests' =
           IF refresh
           THEN [window_user_requests EXCEPT ![w].refresh_frame = TRUE]
           ELSE [window_user_requests EXCEPT ![w].redraw_requested = TRUE]
    /\ UNCHANGED <<loop_vars, callback_kind, seat_vars, app_vars, registry_vars, window_compositor_updates,
                   sctk_events, pending_user_events, panic_site, hist_vars>>

\* WindowRequest, as far as handle_window_requests tells the kinds apart: one it
\* applies to the window, one that raises refresh_frame, one that raises
\* redraw_requested
WindowRequests == {"Maximize", "Title", "Redraw"}

\* A holder of the window's Arc<Mutex<Vec<WindowRequest>>> pushes a request while
\* the loop runs.
QueueRequest(w, request) ==
    /\ pc \notin {"Start", "Returned", "Panicked"}
    /\ n_inputs < MaxInputs
    /\ n_inputs' = n_inputs + 1
    /\ w \in DOMAIN windows
    /\ windows' = [windows EXCEPT ![w].pending_requests = Append(@, request)]
    /\ UNCHANGED <<loop_vars, callback_kind, seat_vars, app_vars, layer_surfaces, popups,
                   buffer_vars, sctk_events, pending_user_events, panic_site, hist_vars>>

UiQueueRequest == \E w \in WindowIds, request \in WindowRequests : QueueRequest(w, request)

UiCreateWindow ==
    \E w \in WindowIds, o \in {None} \cup {Some(z) : z \in Sizes} : CreateWindow(w, o)
UiRequestRedraw == \E w \in WindowIds, refresh \in BOOLEAN : RequestRedraw(w, refresh)

-----------------------------------------------------------------------------
(* The popup registry: PopupHandler for SctkState and the creation of popups *)

\* The ids of the popups a registry holds, in Vec order
PopupIdsOf(reg) == {reg[i].id : i \in 1..Len(reg)}

\* self.popups.iter().position(|p| p.popup.wl_surface().id() == id); 0 stands for None
Position(reg, id) ==
    IF id \in PopupIdsOf(reg)
    THEN CHOOSE i \in 1..Len(reg) :
            reg[i].id = id /\ \A j \in 1..(i - 1) : reg[j].id # id
    ELSE 0

\* Vec::remove(i)
RemoveAt(reg, i) == SubSeq(reg, 1, i - 1) \o SubSeq(reg, i + 1, Len(reg))

\* Vec::pop (the popped value is not used)
Pop(v) == SubSeq(v, 1, Len(v) - 1)

\* The `while let Some(id) = to_destroy.last().cloned()` loop of PopupHandler::done,
\* run to its end or to the unwrap() that panics on a parent no longer tracked.
RECURSIVE DoneLoop(_)
DoneLoop(st) ==
    IF st.panicked \/ st.to_destroy = <<>> THEN st
    ELSE LET id == st.to_destroy[Len(st.to_destroy)]
             i == Position(st.popups, id)
         IN  IF i = 0
             THEN DoneLoop([st EXCEPT !.to_destroy = Pop(@)])
             ELSE LET popup_to_destroy == st.popups[i]
                      removed == RemoveAt(st.popups, i)
                      pushed == Append(removed, popup_to_destroy)
                  IN  IF popup_to_destroy.parent \in PopupIds
                      THEN IF Position(pushed, popup_to_destroy.parent) = 0
                           THEN [st EXCEPT !.popups = pushed, !.panicked = TRUE]
                           ELSE DoneLoop([st EXCEPT
                                            !.popups = pushed,
                                            !.to_destroy = Append(@, popup_to_destroy.parent)])
                      ELSE DoneLoop([st EXCEPT
                                       !.popups = removed,
                                       !.events = Append(@, PopupDoneEv(id)),
                                       !.to_destroy = Pop(@)])

\* How many Done events for popup q a sequence of events holds
DoneEventsFor(events, q) ==
    Cardinality({i \in 1..Len(events) : events[i] = PopupDoneEv(q)})

\* PopupHandler::done
PopupDone(p) ==
    LET st == DoneLoop([popups |-> popups, to_destroy |-> <<p>>,
                        events |-> <<>>, panicked |-> FALSE])
    IN  /\ popups' = st.popups
        /\ sctk_events' = sctk_events \o st.events
        /\ done_count' = [q \in PopupIds |-> done_count[q] + DoneEventsFor(st.events, q)]
        /\ last_closure' = [popup |-> p, before |-> popups, after |-> st.popups,
                            events |-> st.events, panicked |-> st.panicked]
        /\ IF st.panicked
           THEN pc' = "Panicked" /\ panic_site' = "xdg_popup.rs:70"
           ELSE UNCHANGED <<pc, panic_site>>
        /\ UNCHANGED <<windows, layer_surfaces, buffer_vars, config_hist, seats>>

\* PopupHandler::configure
PopupConfigure(p, configure) ==
    LET i == Position(popups, p)
    IN  /\ IF i = 0
           THEN UNCHANGED <<popups, sctk_events, negotiated>>
           ELSE LET first == (popups[i].last_configure = None)
                IN  /\ popups' = [popups EXCEPT ![i].last_configure = Some(configure)]
                    /\ sctk_events' =
                           Append(sctk_events, PopupConfigureEv(p, configure, first))
                    /\ negotiated' = [negotiated EXCEPT ![p] = Some(configure)]
        /\ UNCHANGED <<pc, panic_site, seats, windows, layer_surfaces, buffer_vars,
                       probe_notified, popup_hist>>

\* A popup is created on a parent surface: a window, a layer surface or a tracked
\* popup. Its record is pushed with no configuration yet; its id is a fresh one.
CreatePopup(p, parent) ==
    /\ n_inputs < MaxInputs
    /\ n_inputs' = n_inputs + 1
    /\ p \notin PopupIdsOf(popups)
    /\ done_count[p] = 0
    /\ parent \in WindowIds \cup LayerIds \cup PopupIdsOf(popups)
    /\ popups' = Append(popups, [id |-> p, parent |-> parent, last_configure |-> None])
    /\ UNCHANGED <<loop_vars, callback_kind, seat_vars, app_vars, windows, layer_surfaces, buffer_vars,
                   sctk_events, pending_user_events, panic_site, hist_vars>>

DispatchPopupDone == \E p \in PopupIds : InDispatch(PopupDone(p))
DispatchPopupConfigure ==
    \E p \in PopupIds, configure \in Sizes : InDispatch(PopupConfigure(p, configure))
UiCreatePopup == \E p \in PopupIds, parent \in SurfaceIds : CreatePopup(p, parent)

\* The loop waits in event_loop.dispatch of its first iteration, the callback
\* having answered NewEvents(Init) with Wait.
InitPopup ==
    /\ pc = "EventLoopDispatch"
    /\ control_flow = Wait
    /\ exit_code = None
    /\ instant_wakeup = FALSE
    /\ dispatched = 0
    /\ callback_kind = "any"
    /\ windows = EmptyMap
    /\ layer_surfaces = [l \in LayerIds |-> [current_size |-> None, last_configure |-> None]]
    /\ popups = <<>>
    /\ window_compositor_updates = EmptyMap
    /\ window_user_requests = EmptyMap
    /\ sctk_events = <<>>
    /\ event_sink_back_buffer = <<>>
    /\ pending_user_events = <<>>
    /\ user_events = <<>>
    /\ compositor_updates_local = <<>>
    /\ user_requests_local = <<>>
    /\ delivered = <<[step |-> "Init", ev |-> NewEvents("Init"), exiting |-> FALSE]>>
    /\ swapped = <<>>
    /\ last_error = NoError
    /\ panic_site = "-"
    /\ negotiated = [s \in SurfaceIds |-> None]
    /\ probe_notified = {}
    /\ done_count = [p \in PopupIds |-> 0]
    /\ last_closure = NoClosure
    /\ seats = <<>>
    /\ last_callback = NoCallback
    /\ instance = InitInstance
    /\ modifiers = DefaultModifiers
    /\ surface_ids = InitSurfaceIds
    /\ projected = NoProjection
    /\ n_inputs = 0

NextPopup ==
    \/ UiCreatePopup
    \/ DispatchPopupConfigure
    \/ DispatchPopupDone

-----------------------------------------------------------------------------
(* The seat registry: SeatHandler, KeyboardHandler and PointerHandler for SctkState *)

\* The seats a registry holds
SeatIdsOf(reg) == {reg[i].seat : i \in 1..Len(reg)}

\* self.seats.iter().position(|s| s.seat == seat); 0 stands for None
SeatPosition(reg, seat) ==
    IF seat \in SeatIdsOf(reg)
    THEN CHOOSE i \in 1..Len(reg) :
            reg[i].seat = seat /\ \A j \in 1..(i - 1) : reg[j].seat # seat
    ELSE 0

\* self.seats.iter_mut().enumerate().find_map(..) on s.kbd == Some(keyboard); the
\* keyboard object a seat hands out is named after the seat. 0 stands for None.
KeyboardPosition(reg, keyboard) ==
    IF \E i \in 1..Len(reg) : reg[i].kbd = Some(keyboard)
    THEN CHOOSE i \in 1..Len(reg) :
            reg[i].kbd = Some(keyboard) /\ \A j \in 1..(i - 1) : reg[j].kbd # Some(keyboard)
    ELSE 0

\* self.seats.iter_mut().find(|s| s.ptr.as_ref() == Some(pointer)); 0 stands for None
PointerPosition(reg, pointer) ==
    IF \E i \in 1..Len(reg) : reg[i].ptr = Some(pointer)
    THEN CHOOSE i \in 1..Len(reg) :
            reg[i].ptr = Some(pointer) /\ \A j \in 1..(i - 1) : reg[j].ptr # Some(pointer)
    ELSE 0

\* The SctkSeat that new_seat pushes
NewSctkSeat(seat) ==
    [seat |-> seat, kbd |-> None, ptr |-> None, kbd_focus |-> None, ptr_focus |-> None,
     last_ptr_press |-> None, last_kbd_press |-> None]

seat_frame ==
    <<pc, panic_site, registry_vars, buffer_vars, config_hist, popup_hist>>

\* SeatHandler::new_seat
NewSeat(seat) ==
    /\ seat \notin SeatIdsOf(seats)
    /\ sctk_events' = Append(sctk_events, SeatEv(seat, "New"))
    /\ seats' = Append(seats, NewSctkSeat(seat))
    /\ UNCHANGED seat_frame

\* SeatHandler::new_capability; `ok` is what get_keyboard / get_pointer returns
NewCapability(seat, capability, ok) ==
    LET i == SeatPosition(seats, seat)
    IN  /\ IF i = 0 \/ capability = "Touch" \/ ~ok
           THEN UNCHANGED <<seats, sctk_events>>
           ELSE /\ sctk_events' =
                       Append(sctk_events,
                              SeatEv(seat, IF capability = "Keyboard"
                                           THEN "NewCapabilityKeyboard"
                                           ELSE "NewCapabilityPointer"))
                /\ seats' = IF capability = "Keyboard"
                            THEN [seats EXCEPT ![i].kbd = Some(seat)]
                            ELSE [seats EXCEPT ![i].ptr = Some(seat)]
        /\ UNCHANGED seat_frame

\* SeatHandler::remove_capability
RemoveCapability(seat, capability) ==
    LET i == SeatPosition(seats, seat)
    IN  /\ IF i = 0 \/ capability = "Touch"
           THEN UNCHANGED <<seats, sctk_events>>
           ELSE IF capability = "Keyboard"
           THEN /\ seats' = [seats EXCEPT ![i].kbd = None]
                /\ sctk_events' = IF seats[i].kbd # None
                                  THEN Append(sctk_events, SeatEv(seat, "RemoveCapabilityKeyboard"))
                                  ELSE sctk_events
           ELSE /\ seats' = [seats EXCEPT ![i].ptr = None]
                /\ sctk_events' = IF seats[i].ptr # None
                                  THEN Append(sctk_events, SeatEv(seat, "RemoveCapabilityPointer"))
                                  ELSE sctk_events
        /\ UNCHANGED seat_frame

\* SeatHandler::remove_seat
RemoveSeat(seat) ==
    LET i == SeatPosition(seats, seat)
    IN  /\ sctk_events' = Append(sctk_events, SeatEv(seat, "Remove"))
        /\ seats' = IF i # 0 THEN RemoveAt(seats, i) ELSE seats
        /\ UNCHANGED seat_frame

\* Keyboard callbacks that push their event for whichever seat owns the keyboard
KeyboardCallbackEverySeat(keyboard, variant, surface) ==
    LET i == KeyboardPosition(seats, keyboard)
    IN  /\ IF i = 0
           THEN UNCHANGED <<seats, sctk_events>>
           ELSE /\ seats' =
                       IF variant \in {"Enter", "Leave"}
                       THEN [seats EXCEPT ![i].kbd_focus = Some(surface)]
                       ELSE IF variant = "Press"
                       THEN [seats EXCEPT ![i].last_kbd_press = Some("key")]
                       ELSE seats
                /\ sctk_events' =
                       Append(sctk_events, KeyboardEv(seats[i].seat, variant, surface))
        /\ UNCHANGED seat_frame

\* The five callbacks of KeyboardHandler: the seat is looked up by its keyboard,
\* the seat's record is updated, and the event is pushed only for the seat at
\* index 0 (is_active).
KeyboardCallback(keyboard, variant, surface) ==
    LET i == KeyboardPosition(seats, keyboard)
    IN  /\ IF i = 0
           THEN UNCHANGED <<seats, sctk_events>>
           ELSE /\ seats' =
                       IF variant \in {"Enter", "Leave"}
                       THEN [seats EXCEPT ![i].kbd_focus = Some(surface)]
                       ELSE IF variant = "Press"
                       THEN [seats EXCEPT ![i].last_kbd_press = Some("key")]
                       ELSE seats
                /\ sctk_events' =
                       IF i = 1
                       THEN Append(sctk_events, KeyboardEv(seats[i].seat, variant, surface))
                       ELSE sctk_events
        /\ UNCHANGED seat_frame

\* KeyboardHandler::enter
KeyboardEnter(keyboard, surface) == KeyboardCallback(keyboard, "Enter", surface)
\* KeyboardHandler::leave
KeyboardLeave(keyboard, surface) == KeyboardCallback(keyboard, "Leave", surface)
\* KeyboardHandler::press_key
PressKey(keyboard) == KeyboardCallback(keyboard, "Press", "-")
\* KeyboardHandler::release_key
ReleaseKey(keyboard) == KeyboardCallback(keyboard, "Release", "-")
\* KeyboardHandler::update_modifiers
UpdateModifiers(keyboard) == KeyboardCallback(keyboard, "Modifiers", "-")

\* The body of `for e in events` in pointer_frame, over the rest of the frame
RECURSIVE PointerFrameLoop(_, _, _)
PointerFrameLoop(my_seat, events, pushed) ==
    IF events = <<>> THEN [my_seat |-> my_seat, pushed |-> pushed]
    ELSE LET e == Head(events)
             s == IF e.kind = "Enter" THEN [my_seat EXCEPT !.ptr_focus = Some(e.surface)]
                  ELSE IF e.kind = "Leave" THEN [my_seat EXCEPT !.ptr_focus = None]
                  ELSE IF e.kind = "Press" THEN [my_seat EXCEPT !.last_ptr_press = Some("press")]
                  ELSE my_seat
         IN  PointerFrameLoop(s, Tail(events),
                              Append(pushed, PointerEv(my_seat.seat, e.kind, e.surface)))

\* PointerHandler::pointer_frame
PointerFrame(pointer, events) ==
    LET i == PointerPosition(seats, pointer)
    IN  /\ IF i = 0
           THEN UNCHANGED <<seats, sctk_events>>
           ELSE LET r == PointerFrameLoop(seats[i], events, <<>>)
                IN  /\ seats' = [seats EXCEPT ![i] = r.my_seat]
                    /\ sctk_events' = sctk_events \o r.pushed
        /\ UNCHANGED seat_frame

-----------------------------------------------------------------------------
(* The protocol callbacks, observed one by one while the loop waits in a dispatch *)

OnNewSeat == \E seat \in SeatIds : Callback("new_seat", seat, NewSeat(seat))
OnRemoveSeat == \E seat \in SeatIds : Callback("remove_seat", seat, RemoveSeat(seat))
OnNewCapability ==
    \E seat \in SeatIds, capability \in Capabilities, ok \in BOOLEAN :
        Callback("new_capability", seat, NewCapability(seat, capability, ok))
OnRemoveCapability ==
    \E seat \in SeatIds, capability \in Capabilities :
        Callback("remove_capability", seat, RemoveCapability(seat, capability))
OnKeyboardEnter ==
    \E keyboard \in SeatIds, surface \in LayerIds :
        Callback("keyboard.enter", keyboard, KeyboardEnter(keyboard, surface))
OnKeyboardLeave ==
    \E keyboard \in SeatIds, surface \in LayerIds :
        Callback("keyboard.leave", keyboard, KeyboardLeave(keyboard, surface))
OnPressKey == \E keyboard \in SeatIds : Callback("keyboard.press_key", keyboard, PressKey(keyboard))
OnReleaseKey ==
    \E keyboard \in SeatIds : Callback("keyboard.release_key", keyboard, ReleaseKey(keyboard))
OnUpdateModifiers ==
    \E keyboard \in SeatIds :
        Callback("keyboard.update_modifiers", keyboard, UpdateModifiers(keyboard))
OnPointerFrame ==
    \E pointer \in SeatIds, events \in PointerFrames :
        Callback("pointer_frame", pointer, PointerFrame(pointer, events))
OnLayerConfigure ==
    \E l \in LayerIds, size \in Sizes : Callback("layer.configure", l, LayerConfigure(l, size))
OnLayerClosed == \E l \in LayerIds : Callback("layer.closed", l, LayerClosed(l))
OnWindowConfigure ==
    \E w \in WindowIds, o \in {None} \cup {Some(z) : z \in Sizes} :
        Callback("window.configure", w, WindowConfigure(w, o))
OnWindowRequestClose ==
    \E w \in WindowIds : Callback("window.request_close", w, WindowRequestClose(w))
OnFrame == \E x \in WindowIds \cup LayerIds : Callback("frame", x, Frame(x))
OnPopupConfigure ==
    \E p \in PopupIds, configure \in Sizes :
        Callback("popup.configure", p, PopupConfigure(p, configure))

\* The loop waits in event_loop.dispatch of an iteration; an earlier iteration has
\* created a window of 800 x 40 and left the seat registry `reg`.
HandlersStart(reg) ==
    /\ pc = "EventLoopDispatch"
    /\ control_flow = Wait
    /\ exit_code = None
    /\ instant_wakeup = FALSE
    /\ dispatched = 0
    /\ callback_kind = "any"
    /\ windows = [w \in WindowIds |->
                      [current_size |-> Some(<<800, 40>>), last_configure |-> None,
                       pending_requests |-> <<>>]]
    /\ layer_surfaces = [l \in LayerIds |-> [current_size |-> None, last_configure |-> None]]
    /\ popups = <<>>
    /\ window_compositor_updates = [w \in WindowIds |-> DefaultCompositorUpdate]
    /\ window_user_requests = [w \in WindowIds |-> DefaultUserRequest]
    /\ sctk_events = <<>>
    /\ event_sink_back_buffer = <<>>
    /\ pending_user_events = <<>>
    /\ user_events = <<>>
    /\ compositor_updates_local = <<>>
    /\ user_requests_local = <<>>
    /\ delivered = <<>>
    /\ swapped = <<>>
    /\ last_error = NoError
    /\ panic_site = "-"
    /\ negotiated = [s \in SurfaceIds |-> None]
    /\ probe_notified = {}
    /\ done_count = [p \in PopupIds |-> 0]
    /\ last_closure = NoClosure
    /\ seats = reg
    /\ last_callback = NoCallback
    /\ instance = InitInstance
    /\ modifiers = DefaultModifiers
    /\ surface_ids = InitSurfaceIds
    /\ projected = NoProjection
    /\ n_inputs = 0

\* No seat has been announced yet
InitHandlers == HandlersStart(<<>>)

\* The record of a seat whose keyboard capability has been announced
SeatWithKeyboard(seat) == [NewSctkSeat(seat) EXCEPT !.kbd = Some(seat)]

\* One seat and its keyboard have been announced in an earlier iteration
InitSeats == HandlersStart(<<SeatWithKeyboard("S1")>>)

NextHandlers ==
    \/ OnNewSeat
    \/ OnRemoveSeat
    \/ OnNewCapability
    \/ OnRemoveCapability
    \/ OnKeyboardEnter
    \/ OnKeyboardLeave
    \/ OnPressKey
    \/ OnReleaseKey
    \/ OnUpdateModifiers
    \/ OnPointerFrame
    \/ OnLayerConfigure
    \/ OnLayerClosed
    \/ OnWindowConfigure
    \/ OnWindowRequestClose
    \/ OnFrame
    \/ OnPopupConfigure
    \/ UiCreatePopup

\* The callbacks of the seat, keyboard and pointer handlers
NextSeats ==
    \/ OnNewSeat
    \/ OnRemoveSeat
    \/ OnNewCapability
    \/ OnRemoveCapability
    \/ OnKeyboardEnter
    \/ OnKeyboardLeave
    \/ OnPressKey
    \/ OnReleaseKey
    \/ OnUpdateModifiers
    \/ OnPointerFrame

-----------------------------------------------------------------------------
(* run_instance: the application's side of the channel the run closure sends to *)

\* One event taken from the receiver by `while let Some(event) = receiver.next().await`
Received(next_instance, panics) ==
    /\ pc = "Instance"
    /\ n_inputs < MaxInputs
    /\ n_inputs' = n_inputs + 1
    /\ instance' = next_instance
    /\ IF panics
       THEN pc' = "Panicked" /\ panic_site' = "application.rs:todo"
       ELSE UNCHANGED <<pc, panic_site>>
    /\ UNCHANGED <<control_flow, exit_code, instant_wakeup, dispatched, callback_kind,
                   registry_vars, buffer_vars, sctk_events, event_sink_back_buffer,
                   pending_user_events, locals, delivered, swapped, last_error,
                   hist_vars, seat_vars, modifiers, surface_ids, projected>>

\* IcedSctkEvent::NewEvents(_) => {}
InstanceNewEvents == Received(instance, FALSE)

\* LayerSurfaceEventVariant::Configure(configure): the size of a known surface is
\* written to surface_sizes; the surface's State (its viewport) is not touched.
InstanceLayerConfigure(id, new_size) ==
    Received([instance EXCEPT
                !.surface_size = IF id \in instance.ids THEN new_size ELSE @,
                !.configures = IF id \in instance.ids THEN Append(@, new_size) ELSE @],
             FALSE)

\* SctkEvent::PointerEvent: an event for an unknown surface is skipped; Enter and
\* Motion move the cursor, Leave parks it, the other kinds are todo!().
InstancePointerEvent(kind, surface, position) ==
    IF surface \notin instance.ids THEN Received(instance, FALSE)
    ELSE IF kind \in {"Enter", "Motion"}
    THEN Received([instance EXCEPT !.cursor_position = position], FALSE)
    ELSE IF kind = "Leave"
    THEN Received([instance EXCEPT !.cursor_position = <<-1, -1>>], FALSE)
    ELSE Received(instance, TRUE)

\* filter_events: whether event `e` is removed from `events` for the surface
\* `object_id`, whether it is copied for it, and whether looking at it is
\* unimplemented!()
FilterEvents(e, object_id, kbd_surface_id) ==
    CASE e.tag = "KeyboardEvent" ->
            [remove |-> kbd_surface_id = Some(object_id), copy |-> FALSE, panic |-> FALSE]
      [] e.tag \in {"NewOutput", "UpdateOutput", "RemovedOutput"} ->
            [remove |-> FALSE, copy |-> TRUE, panic |-> FALSE]
      [] e.tag = "Draw" -> [remove |-> FALSE, copy |-> FALSE, panic |-> TRUE]
      [] OTHER -> [remove |-> e.id = object_id, copy |-> FALSE, panic |-> FALSE]

\* `while i < events.len()`: an event to remove moves to `filtered`, an event to
\* copy is cloned into `filtered` with `i` left where it is, so that the loop never
\* gets past it, any other event is stepped over
RECURSIVE FilterLoop(_, _, _, _, _)
FilterLoop(events, i, filtered, object_id, kbd_surface_id) ==
    IF i > Len(events) THEN [events |-> events, filtered |-> filtered, outcome |-> "ok"]
    ELSE LET should_filter == FilterEvents(events[i], object_id, kbd_surface_id)
         IN  IF should_filter.panic
             THEN [events |-> events, filtered |-> filtered, outcome |-> "panic"]
             ELSE IF should_filter.remove
             THEN FilterLoop(RemoveAt(events, i), i, Append(filtered, events[i]),
                             object_id, kbd_surface_id)
             ELSE IF should_filter.copy
             THEN [events |-> events, filtered |-> filtered, outcome |-> "hang"]
             ELSE FilterLoop(events, i + 1, filtered, object_id, kbd_surface_id)

\* `for (object_id, native_id) in &surface_ids`, over the surfaces not yet gone
\* through: a surface with nothing filtered is skipped (`messages` is never
\* filled); for any other, the cursor position is read from states.get(&id) and the
\* events go to interfaces.get_mut(&id), `id` being the surface run_instance
\* started with.
RECURSIVE SurfacesLoop(_, _, _, _)
SurfacesLoop(order, ids, locals_, handed) ==
    IF order = <<>> THEN [events |-> locals_.events, handed |-> handed, outcome |-> "ok"]
    ELSE LET object_id == Head(order)
             r == FilterLoop(locals_.events, 1, <<>>, object_id, locals_.kbd_surface_id)
             left == [locals_ EXCEPT !.events = r.events]
         IN  IF r.outcome # "ok"
             THEN [events |-> r.events, handed |-> handed, outcome |-> r.outcome]
             ELSE IF r.filtered = <<>>
             THEN SurfacesLoop(Tail(order), ids, left, handed)
             ELSE SurfacesLoop(Tail(order), ids, left,
                               Append(handed, [surface |-> ids[object_id].inner,
                                               events |-> r.filtered,
                                               cursor_of |-> locals_.id,
                                               fed_to |-> locals_.id]))

\* IcedSctkEvent::MainEventsCleared. The surfaces are gone through in the order of
\* the hash map. What the user interface answers (messages, an outdated state) is
\* not kept. In run_instance nothing pushes to `events`, so that there every
\* surface is skipped.
InstanceMainEventsCleared ==
    /\ pc = "Instance"
    /\ n_inputs < MaxInputs
    /\ n_inputs' = n_inputs + 1
    /\ \E order \in Orders(DOMAIN surface_ids) :
          LET r == SurfacesLoop(order, surface_ids, instance, <<>>)
          IN  /\ instance' = [instance EXCEPT
                                 !.events = r.events,
                                 !.partition = [before |-> instance.events,
                                                handed |-> r.handed,
                                                outcome |-> r.outcome]]
              /\ IF r.outcome = "panic"
                 THEN pc' = "Panicked" /\ panic_site' = "application.rs:450"
                 ELSE IF r.outcome = "hang"
                 THEN pc' = "Hung" /\ UNCHANGED panic_site
                 ELSE UNCHANGED <<pc, panic_site>>
    /\ UNCHANGED <<control_flow, exit_code, instant_wakeup, dispatched, callback_kind,
                   registry_vars, buffer_vars, sctk_events, event_sink_back_buffer,
                   pending_user_events, locals, delivered, swapped, last_error,
                   hist_vars, seat_vars, modifiers, surface_ids, projected>>

\* IcedSctkEvent::RedrawRequested(id): the interface is taken out of `interfaces`;
\* when the surface has all its parts it is presented, after a relayout if
\* state.viewport_changed(), and only that branch puts the interface back.
InstanceRedrawRequested(id) ==
    IF id \notin instance.ids THEN Received(instance, FALSE)
    ELSE IF ~instance.interface THEN Received(instance, FALSE)
    ELSE LET relayouts == IF instance.viewport_changed
                          THEN instance.relayouts + 1 ELSE instance.relayouts
         IN  Received([instance EXCEPT
                         !.interface = instance.viewport_changed,
                         !.relayouts = relayouts,
                         !.presented = Append(@, [viewport |-> instance.viewport,
                                                  relayouts |-> relayouts,
                                                  configures |-> instance.configures])],
                      FALSE)

\* IcedSctkEvent::RedrawEventsCleared => { // TODO }
InstanceRedrawEventsCleared == Received(instance, FALSE)

\* The events whose branch is todo!() or unimplemented!()
InstanceUnhandled(evt) == InstanceTodo(evt) /\ Received(instance, TRUE)

OnNewEvents == InstanceNewEvents
OnInstanceConfigure ==
    \E id \in LayerIds \cup WindowIds, new_size \in Sizes : InstanceLayerConfigure(id, new_size)
OnPointerEvent ==
    \E kind \in {"Enter", "Motion", "Leave", "Press"}, surface \in LayerIds \cup WindowIds,
       position \in Positions :
        InstancePointerEvent(kind, surface, position)
OnMainEventsCleared == InstanceMainEventsCleared
OnRedrawRequested == \E id \in LayerIds \cup WindowIds : InstanceRedrawRequested(id)
OnRedrawEventsCleared == InstanceRedrawEventsCleared
OnUnhandled ==
    \E evt \in {UserEvent, LoopDestroyed} \cup {LayerDoneEv(l) : l \in LayerIds} :
        InstanceUnhandled(evt)

\* run_instance has started and waits for its first event
InitInstanceLoop == pc = "Instance" /\ InitRest("run")

\* The events MainEventsCleared is tried on: for the starting surface, for a
\* second surface, for no surface, and the two kinds filter_events sets apart
PendingAlphabet ==
    {SctkEv("PointerEvent", "Enter", "L1", 0, {}, FALSE, None),
     SctkEv("PointerEvent", "Enter", "W1", 0, {}, FALSE, None),
     SctkEv("LayerSurfaceEvent", "Configure", "L1", 0, {}, FALSE, None),
     SctkEv("WindowEvent", "Close", "W1", 0, {}, FALSE, None),
     SctkEv("KeyboardEvent", "Press", "-", 97, {}, FALSE, None),
     SctkEv("NewOutput", "-", "O1", 0, {}, FALSE, None),
     SctkEv("Draw", "-", "L1", 0, {}, FALSE, None)}

\* The lists of up to n events
RECURSIVE PendingLists(_)
PendingLists(n) ==
    IF n = 0 THEN {<<>>}
    ELSE PendingLists(n - 1)
         \cup {Append(l, e) : l \in {k \in PendingLists(n - 1) : Len(k) = n - 1},
                              e \in PendingAlphabet}

\* The handler of MainEventsCleared as a function of what it reads: run_instance
\* waits for an event with some list of events and a table that holds the
\* starting surface and possibly a second one
InitPartition ==
    /\ pc = "Instance"
    /\ control_flow = Poll
    /\ exit_code = None
    /\ instant_wakeup = FALSE
    /\ dispatched = 0
    /\ callback_kind = "run"
    /\ windows = EmptyMap
    /\ layer_surfaces = [l \in LayerIds |-> [current_size |-> None, last_configure |-> None]]
    /\ popups = <<>>
    /\ window_compositor_updates = EmptyMap
    /\ window_user_requests = EmptyMap
    /\ sctk_events = <<>>
    /\ event_sink_back_buffer = <<>>
    /\ pending_user_events = <<>>
    /\ user_events = <<>>
    /\ compositor_updates_local = <<>>
    /\ user_requests_local = <<>>
    /\ delivered = <<>>
    /\ swapped = <<>>
    /\ last_error = NoError
    /\ panic_site = "-"
    /\ negotiated = [s \in SurfaceIds |-> None]
    /\ probe_notified = {}
    /\ done_count = [p \in PopupIds |-> 0]
    /\ last_closure = NoClosure
    /\ seats = <<>>
    /\ last_callback = NoCallback
    /\ \E l \in PendingLists(MaxPending) : instance = [InitInstance EXCEPT !.events = l]
    /\ modifiers = DefaultModifiers
    /\ \E known \in {{"L1"}, {"L1", "W1"}} : surface_ids = [s \in known |-> Wrapper(s)]
    /\ projected = NoProjection
    /\ n_inputs = 0

NextPartition ==
    \/ OnMainEventsCleared
    \/ OnNewEvents

NextInstance ==
    \/ OnNewEvents
    \/ OnInstanceConfigure
    \/ OnPointerEvent
    \/ OnMainEventsCleared
    \/ OnRedrawRequested
    \/ OnRedrawEventsCleared
    \/ OnUnhandled

-----------------------------------------------------------------------------
(* run_command: the actions of one Command, run by run_instance before its loop
   and by update *)

\* The arms of `match action`; "Other" is the arm `_ => {}`
ActionKinds ==
    {"Future", "ClipboardRead", "ClipboardWrite", "Window", "System", "Widget",
     "LayerSurface", "WaylandWindow", "Other"}

\* command.actions() of up to MaxBatch actions
RECURSIVE Batches(_)
Batches(n) ==
    IF n = 0 THEN {<<>>}
    ELSE Batches(n - 1)
         \cup {Append(b, k) : b \in {c \in Batches(n - 1) : Len(c) = n - 1}, k \in ActionKinds}

\* One turn of `for action in command.actions()` on an action of `kind`:
\* `next_instance` is what the arm leaves, `panics` whether it is todo!()
RunAction(kind, next_instance, panics) ==
    /\ pc = "RunCommand"
    /\ instance.actions # <<>>
    /\ Head(instance.actions) = kind
    /\ IF panics
       THEN /\ pc' = "Panicked"
            /\ panic_site' = "application.rs:run_command"
            /\ instance' = [instance EXCEPT !.actions = Tail(@)]
       ELSE /\ instance' = [next_instance EXCEPT !.actions = Tail(@),
                                                 !.applied = Append(@, kind)]
            /\ UNCHANGED <<pc, panic_site>>
    /\ UNCHANGED <<control_flow, exit_code, instant_wakeup, dispatched, callback_kind,
                   registry_vars, buffer_vars, sctk_events, event_sink_back_buffer,
                   pending_user_events, locals, delivered, swapped, last_error,
                   hist_vars, seat_vars, modifiers, surface_ids, projected, n_inputs>>

\* command::Action::Future(future) => runtime.spawn(..)
RunFuture == RunAction("Future", [instance EXCEPT !.spawned = @ + 1], FALSE)

\* command::Action::Clipboard(action): Read and Write are todo!()
RunClipboard ==
    \E kind \in {"ClipboardRead", "ClipboardWrite"} : RunAction(kind, instance, TRUE)

\* command::Action::Window(id, action) => todo!()
RunWindow == RunAction("Window", instance, TRUE)

\* command::Action::System(QueryInformation): the work is left to a thread of its own
RunSystem == RunAction("System", instance, FALSE)

\* command::Action::Widget(action): the operation runs on the user interface until
\* it finishes with no message or with one, which is sent through the proxy
RunWidget ==
    \E outcome \in {"None", "Some"} :
        RunAction("Widget",
                  IF outcome = "Some" THEN [instance EXCEPT !.sent = Append(@, "UserEvent")]
                  ELSE instance,
                  FALSE)

\* Wayland(Action::LayerSurface(a)) => proxy.send_event(Event::LayerSurface(a)),
\* whose result is not looked at
RunLayerSurface ==
    RunAction("LayerSurface", [instance EXCEPT !.sent = Append(@, "LayerSurface")], FALSE)

\* Wayland(Action::Window(Action::Window { .. })) => todo!()
RunWaylandWindow == RunAction("WaylandWindow", instance, TRUE)

\* _ => {}
RunOther == RunAction("Other", instance, FALSE)

\* The loop over the actions ends and run_command returns to run_instance
CommandDone ==
    /\ pc = "RunCommand"
    /\ instance.actions = <<>>
    /\ pc' = "Instance"
    /\ UNCHANGED <<control_flow, exit_code, instant_wakeup, dispatched, callback_kind,
                   registry_vars, buffer_vars, sctk_events, event_sink_back_buffer,
                   pending_user_events, locals, delivered, swapped, last_error,
                   hist_vars, seat_vars, app_vars, n_inputs, panic_site>>

\* run_instance calls run_command on the application's initial Command
InitCommand ==
    /\ pc = "RunCommand"
    /\ control_flow = Poll
    /\ exit_code = None
    /\ instant_wakeup = FALSE
    /\ dispatched = 0
    /\ callback_kind = "run"
    /\ windows = EmptyMap
    /\ layer_surfaces = [l \in LayerIds |-> [current_size |-> None, last_configure |-> None]]
    /\ popups = <<>>
    /\ window_compositor_updates = EmptyMap
    /\ window_user_requests = EmptyMap
    /\ sctk_events = <<>>
    /\ event_sink_back_buffer = <<>>
    /\ pending_user_events = <<>>
    /\ user_events = <<>>
    /\ compositor_updates_local = <<>>
    /\ user_requests_local = <<>>
    /\ delivered = <<>>
    /\ swapped = <<>>
    /\ last_error = NoError
    /\ panic_site = "-"
    /\ negotiated = [s \in SurfaceIds |-> None]
    /\ probe_notified = {}
    /\ done_count = [p \in PopupIds |-> 0]
    /\ last_closure = NoClosure
    /\ seats = <<>>
    /\ last_callback = NoCallback
    /\ \E b \in Batches(MaxBatch) : instance = [InitInstance EXCEPT !.batch = b, !.actions = b]
    /\ modifiers = DefaultModifiers
    /\ surface_ids = InitSurfaceIds
    /\ projected = NoProjection
    /\ n_inputs = 0

NextCommand ==
    \/ RunFuture
    \/ RunClipboard
    \/ RunWindow
    \/ RunSystem
    \/ RunWidget
    \/ RunLayerSurface
    \/ RunWaylandWindow
    \/ RunOther
    \/ CommandDone

-----------------------------------------------------------------------------
(* SctkEvent::to_native *)

\* An iced_native::Event; unused fields hold a fixed filler.
Native(kind, id, code, mods, size) ==
    [kind |-> kind, id |-> id, code |-> code, mods |-> mods, size |-> size]

\* Keysyms and pointer buttons: one the lookup tables know, one they do not
Keysyms == {97, 0}
Buttons == {272, 999}

\* conversion::keysym_to_vkey
keysym_to_vkey(keysym) == IF keysym = 97 THEN Some("A") ELSE None

\* conversion::pointer_button_to_native
pointer_button_to_native(button) == IF button = 272 THEN Some("Left") ELSE None

\* conversion::modifiers_to_native
modifiers_to_native(mods) ==
    {IF m = "shift" THEN "SHIFT" ELSE "CTRL" : m \in mods}

\* surface_ids.get(&id).map(f)
GetMap(ids, id, event) == IF id \in DOMAIN ids THEN Some(event) ELSE None

\* What a call leaves: the Option it returns, the modifiers it leaves behind and
\* whether it panicked instead of returning.
Returned(event, mods) == [event |-> event, modifiers |-> mods, panicked |-> FALSE]

\* A to_native that projects a Modifiers event without storing it
ToNativeForgetsModifiers(ev, mods, ids) ==
    IF ev.tag = "KeyboardEvent" /\ ev.variant = "Modifiers"
    THEN Returned(Some(Native("ModifiersChanged", "-", 0, modifiers_to_native(ev.mods),
                              <<0, 0>>)), mods)
    ELSE IF ev.tag = "KeyboardEvent" /\ ev.variant \in {"Press", "Release"}
            /\ keysym_to_vkey(ev.code) # None
    THEN Returned(Some(Native(IF ev.variant = "Press" THEN "KeyPressed" ELSE "KeyReleased",
                              "-", Unwrap(keysym_to_vkey(ev.code)),
                              modifiers_to_native(mods), <<0, 0>>)), mods)
    ELSE Returned(None, mods)

\* SctkEvent::to_native(self, modifiers, surface_ids)
to_native(ev, mods, ids) ==
    CASE ev.tag = "SeatEvent" -> Returned(None, mods)
      [] ev.tag = "PointerEvent" ->
            (CASE ev.variant = "Enter" ->
                    Returned(Some(Native("CursorEntered", "-", 0, {}, <<0, 0>>)), mods)
               [] ev.variant = "Leave" ->
                    Returned(Some(Native("CursorLeft", "-", 0, {}, <<0, 0>>)), mods)
               [] ev.variant = "Motion" ->
                    Returned(Some(Native("CursorMoved", "-", 0, {}, Unwrap(ev.new_size))), mods)
               [] ev.variant = "Press" ->
                    Returned(IF pointer_button_to_native(ev.code) = None THEN None
                             ELSE Some(Native("ButtonPressed", "-",
                                              Unwrap(pointer_button_to_native(ev.code)),
                                              {}, <<0, 0>>)), mods)
               [] OTHER ->
                    Returned(IF pointer_button_to_native(ev.code) = None THEN None
                             ELSE Some(Native("ButtonReleased", "-",
                                              Unwrap(pointer_button_to_native(ev.code)),
                                              {}, <<0, 0>>)), mods))
      [] ev.tag = "KeyboardEvent" ->
            (CASE ev.variant = "Leave" ->
                    Returned(GetMap(ids, ev.id,
                                    Native("Unfocused", ev.id, 0, {}, <<0, 0>>)), mods)
               [] ev.variant = "Enter" ->
                    Returned(GetMap(ids, ev.id,
                                    Native("Focused", ev.id, 0, {}, <<0, 0>>)), mods)
               [] ev.variant = "Press" ->
                    Returned(IF keysym_to_vkey(ev.code) = None THEN None
                             ELSE Some(Native("KeyPressed", "-",
                                              Unwrap(keysym_to_vkey(ev.code)),
                                              modifiers_to_native(mods), <<0, 0>>)), mods)
               [] ev.variant = "Release" ->
                    Returned(IF keysym_to_vkey(ev.code) = None THEN None
                             ELSE Some(Native("KeyReleased", "-",
                                              Unwrap(keysym_to_vkey(ev.code)),
                                              modifiers_to_native(mods), <<0, 0>>)), mods)
               [] OTHER ->
                    Returned(Some(Native("ModifiersChanged", "-", 0,
                                         modifiers_to_native(ev.mods), <<0, 0>>)), ev.mods))
      [] ev.tag = "WindowEvent" ->
            (CASE ev.variant = "Close" ->
                    Returned(GetMap(ids, ev.id,
                                    Native("CloseRequested", ev.id, 0, {}, <<0, 0>>)), mods)
               [] ev.variant = "Configure" ->
                    IF ~ev.resizing THEN Returned(None, mods)
                    ELSE IF ev.new_size = None
                    THEN [event |-> None, modifiers |-> mods, panicked |-> TRUE]
                    ELSE Returned(GetMap(ids, ev.id,
                                         Native("Resized", ev.id, 0, {}, Unwrap(ev.new_size))),
                                  mods)
               [] OTHER -> Returned(None, mods))
      [] ev.tag = "PopupEvent" ->
            IF ev.variant = "Done"
            THEN Returned(GetMap(ids, ev.id, Native("PopupDone", ev.id, 0, {}, <<0, 0>>)), mods)
            ELSE Returned(None, mods)
      [] OTHER -> Returned(None, mods)

\* The events each arm of the match is tried on
SeatInputs == {SctkEv("SeatEvent", "New", "-", 0, {}, FALSE, None)}
PointerInputs ==
    {SctkEv("PointerEvent", k, s, 0, {}, FALSE, Some(<<5, 5>>)) :
        k \in {"Enter", "Leave", "Motion"}, s \in NativeSurfaces}
    \cup {SctkEv("PointerEvent", k, s, b, {}, FALSE, Some(<<5, 5>>)) :
            k \in {"Press", "Release"}, s \in NativeSurfaces, b \in Buttons}
KeyboardInputs ==
    {SctkEv("KeyboardEvent", k, s, 0, {}, FALSE, None) :
        k \in {"Enter", "Leave"}, s \in NativeSurfaces}
    \cup {SctkEv("KeyboardEvent", k, "-", c, {}, FALSE, None) :
            k \in {"Press", "Release"}, c \in Keysyms}
    \cup {SctkEv("KeyboardEvent", "Modifiers", "-", 0, m, FALSE, None) :
            m \in SUBSET ModifierFlags}
WindowInputs ==
    {SctkEv("WindowEvent", k, s, 0, {}, FALSE, None) :
        k \in {"Created", "Close"}, s \in NativeSurfaces}
    \cup {SctkEv("WindowEvent", "Configure", s, 0, {}, r, z) :
            s \in NativeSurfaces, r \in BOOLEAN, z \in {None, Some(<<800, 40>>)}}
SurfaceInputs ==
    {SctkEv("LayerSurfaceEvent", k, s, 0, {}, FALSE, None) :
        k \in {"Configure", "Done"}, s \in NativeSurfaces}
    \cup {SctkEv("PopupEvent", k, s, 0, {}, FALSE, None) :
            k \in {"Configure", "Done"}, s \in NativeSurfaces}
    \cup {SctkEv("Draw", "-", s, 0, {}, FALSE, None) : s \in NativeSurfaces}

\* One call of to_native on `ev` with the caller's modifiers and table
Projecting(ev) ==
    /\ pc = "Native"
    /\ n_inputs < MaxInputs
    /\ n_inputs' = n_inputs + 1
    /\ LET r == to_native(ev, modifiers, surface_ids)
       IN  /\ modifiers' = r.modifiers
           /\ projected' =
                 [ev |-> ev, result |-> r.event, panicked |-> r.panicked,
                  mods_before |-> projected.mods_seen,
                  mods_seen |-> IF ev.tag = "KeyboardEvent" /\ ev.variant = "Modifiers"
                                THEN ev.mods ELSE projected.mods_seen]
           /\ IF r.panicked
              THEN pc' = "Panicked" /\ panic_site' = "sctk_event.rs:381"
              ELSE UNCHANGED <<pc, panic_site>>
    /\ UNCHANGED <<control_flow, exit_code, instant_wakeup, dispatched, callback_kind,
                   registry_vars, buffer_vars, sctk_events, event_sink_back_buffer,
                   pending_user_events, locals, delivered, swapped, last_error,
                   hist_vars, seat_vars, instance, surface_ids>>

ProjectSeatEvent == \E ev \in SeatInputs : Projecting(ev)
ProjectPointerEvent == \E ev \in PointerInputs : Projecting(ev)
ProjectKeyboardEvent == \E ev \in KeyboardInputs : Projecting(ev)
ProjectWindowEvent == \E ev \in WindowInputs : Projecting(ev)
ProjectSurfaceEvent == \E ev \in SurfaceInputs : Projecting(ev)

\* A caller holds default modifiers and some table of surface ids
InitNative ==
    /\ pc = "Native"
    /\ control_flow = Poll
    /\ exit_code = None
    /\ instant_wakeup = FALSE
    /\ dispatched = 0
    /\ callback_kind = "run"
    /\ windows = EmptyMap
    /\ layer_surfaces = [l \in LayerIds |-> [current_size |-> None, last_configure |-> None]]
    /\ popups = <<>>
    /\ window_compositor_updates = EmptyMap
    /\ window_user_requests = EmptyMap
    /\ sctk_events = <<>>
    /\ event_sink_back_buffer = <<>>
    /\ pending_user_events = <<>>
    /\ user_events = <<>>
    /\ compositor_updates_local = <<>>
    /\ user_requests_local = <<>>
    /\ delivered = <<>>
    /\ swapped = <<>>
    /\ last_error = NoError
    /\ panic_site = "-"
    /\ negotiated = [s \in SurfaceIds |-> None]
    /\ probe_notified = {}
    /\ done_count = [p \in PopupIds |-> 0]
    /\ last_closure = NoClosure
    /\ seats = <<>>
    /\ last_callback = NoCallback
    /\ instance = InitInstance
    /\ modifiers = DefaultModifiers
    /\ \E known \in SUBSET NativeSurfaces : surface_ids = [s \in known |-> Wrapper(s)]
    /\ projected = NoProjection
    /\ n_inputs = 0

NextNative ==
    \/ ProjectSeatEvent
    \/ ProjectPointerEvent
    \/ ProjectKeyboardEvent
    \/ ProjectWindowEvent
    \/ ProjectSurfaceEvent

-----------------------------------------------------------------------------
Next ==
    \/ Start
    \/ Flush
    \/ DispatchPendingOk
    \/ DispatchPendingErr
    \/ MatchControlFlow
    \/ EventLoopDispatchOk
    \/ EventLoopDispatchErr
    \/ UserEventSource
    \/ CollectUserEvents
    \/ DeliverUserEvent
    \/ TakeCompositorUpdates
    \/ ApplyScaleFactor
    \/ ApplyConfigure
    \/ ApplyClose
    \/ SwapSink
    \/ DrainSink
    \/ DeliverMainEventsCleared
    \/ TakeUserRequests
    \/ HandleRedraw
    \/ DeliverRedrawEventsCleared
    \/ DeliverLoopDestroyed
    \/ DispatchLayerConfigure
    \/ DispatchLayerClosed
    \/ DispatchWindowConfigure
    \/ DispatchWindowRequestClose
    \/ DispatchScaleFactorChanged
    \/ DispatchFrame
    \/ DispatchBufferConfigure
    \/ DispatchBufferClose
    \/ UiCreateWindow
    \/ UiRequestRedraw

Spec == Init /\ [][Next]_vars

SpecRun == InitRun /\ [][Next]_vars

\* run_return once the application has created its window: the loop and the
\* protocol callbacks that write a window's compositor-update buffer or close it.
\* No message is sent through the proxy and the UI layer asks for no redraw.
InitUpdates == pc = "Start" /\ InitState("any", WindowIds)

\* scale_factor_changed, observed: the history keeps the surface, the factor, the
\* factor the callback found pending for the surface and which input of the run it
\* was.
OnScaleFactorChanged ==
    \E x \in WindowIds \cup LayerIds, f \in Factors :
        /\ Dispatched(ScaleFactorChanged(x, f))
        /\ last_callback' =
               [handler |-> "scale_factor_changed", target |-> x,
                before |-> [factor |-> f,
                            pending |-> IF x \in DOMAIN window_compositor_updates
                                        THEN window_compositor_updates[x].scale_factor
                                        ELSE None,
                            input |-> n_inputs + 1],
                after |-> NoCallback.after, appended |-> <<>>]

NextUpdates ==
    \/ Start
    \/ Flush
    \/ DispatchPendingOk
    \/ DispatchPendingErr
    \/ MatchControlFlow
    \/ EventLoopDispatchOk
    \/ EventLoopDispatchErr
    \/ CollectUserEvents
    \/ TakeCompositorUpdates
    \/ ApplyScaleFactor
    \/ ApplyConfigure
    \/ ApplyClose
    \/ SwapSink
    \/ DrainSink
    \/ DeliverMainEventsCleared
    \/ TakeUserRequests
    \/ HandleRedraw
    \/ DeliverRedrawEventsCleared
    \/ DeliverLoopDestroyed
    \/ DispatchWindowRequestClose
    \/ OnScaleFactorChanged
    \/ DispatchBufferConfigure
    \/ DispatchBufferClose

SpecUpdates == InitUpdates /\ [][NextUpdates]_vars

\* run_return once the application has created its window, with the holders of
\* the window's request queue pushing to it
InitRequests == pc = "Start" /\ InitState("any", WindowIds)

NextRequests ==
    \/ Start
    \/ Flush
    \/ DispatchPendingOk
    \/ DispatchPendingErr
    \/ MatchControlFlow
    \/ EventLoopDispatchOk
    \/ EventLoopDispatchErr
    \/ CollectUserEvents
    \/ TakeCompositorUpdates
    \/ ApplyScaleFactor
    \/ ApplyConfigure
    \/ ApplyClose
    \/ SwapSink
    \/ DrainSink
    \/ DeliverMainEventsCleared
    \/ TakeUserRequests
    \/ HandleRedraw
    \/ DeliverRedrawEventsCleared
    \/ DeliverLoopDestroyed
    \/ UiQueueRequest

SpecRequests == InitRequests /\ [][NextRequests]_vars

SpecPopup == InitPopup /\ [][NextPopup]_vars

SpecHandlers == InitHandlers /\ [][NextHandlers]_vars

SpecInstance == InitInstanceLoop /\ [][NextInstance]_vars

SpecSeats == InitSeats /\ [][NextSeats]_vars

SpecCommand == InitCommand /\ [][NextCommand]_vars

SpecPartition == InitPartition /\ [][NextPartition]_vars

SpecNative == InitNative /\ [][NextNative]_vars

-----------------------------------------------------------------------------
(* Properties of the run loop *)

\* The phase of an iteration an invocation of the callback belongs to
Phase(d) ==
    CASE d.ev.tag = "NewEvents" -> 1
      [] d.ev.tag = "UserEvent" -> 2
      [] d.ev.tag = "MainEventsCleared" -> 5
      [] d.ev.tag = "RedrawRequested" -> 6
      [] d.ev.tag = "RedrawEventsCleared" -> 7
      [] d.ev.tag = "LoopDestroyed" -> 8
      [] OTHER -> IF d.step = "CompositorUpdates" THEN 3 ELSE 4

\* The invocations the loop body has made in this iteration
LoopBody == SelectSeq(delivered, LAMBDA d : d.step # "Init")

\* How many invocations of this iteration's loop body carried an event of the given tag
Delivered(tag) == Cardinality({i \in 1..Len(LoopBody) : LoopBody[i].ev.tag = tag})

\* The loop body has just run to its end
IterationComplete ==
    /\ pc = "Flush"
    /\ delivered # <<>>
    /\ delivered[Len(delivered)].ev.tag = "RedrawEventsCleared"

\* C1: within an iteration the callback's invocations never go back to an earlier
\* phase (NewEvents, UserEvent, compositor updates, sink events, MainEventsCleared,
\* RedrawRequested, RedrawEventsCleared), and an iteration that runs to completion
\* starts with its one NewEvents, has collected every pending user event, and holds
\* exactly one MainEventsCleared and exactly one RedrawEventsCleared, the latter last.
C1_PhaseOrder ==
    /\ \A i, j \in 1..Len(delivered) : i < j => Phase(delivered[i]) <= Phase(delivered[j])
    /\ \A i \in 1..Len(delivered) :
          delivered[i].step = "CompositorUpdates"
              => delivered[i].ev.tag \in {"ScaleFactorChanged", "WindowEvent"}
    /\ IterationComplete =>
          /\ LoopBody[1].ev.tag = "NewEvents"
          /\ Delivered("NewEvents") = 1
          /\ Delivered("MainEventsCleared") = 1
          /\ Delivered("RedrawEventsCleared") = 1
          /\ user_events = <<>> /\ pending_user_events = <<>>
          /\ compositor_updates_local = <<>> /\ user_requests_local = <<>>

\* A completed iteration that delivered a user event and a redraw request
C1_Witness ==
    /\ IterationComplete
    /\ Delivered("UserEvent") >= 1
    /\ Delivered("RedrawRequested") >= 1

C6_ConfigureProbeSilent == probe_notified = {}

\* C11: once the loop has left (an exit code is fixed, by a requested exit or by a
\* transport error) only LoopDestroyed remains to be delivered; it is delivered
\* exactly once, nothing is delivered before the loop has left, and nothing after it.
C11_LoopDestroyedLast ==
    /\ [](exit_code # None => pc \in {"LoopDestroyed", "Returned"})
    /\ [](pc = "Returned" =>
            /\ exit_code # None
            /\ delivered[Len(delivered)].ev = LoopDestroyed
            /\ Delivered("LoopDestroyed") = 1)
    /\ [](pc # "Returned" => Delivered("LoopDestroyed") = 0)
    /\ [][pc = "LoopDestroyed" =>
            (pc' = "Returned" /\ delivered' = Append(delivered, delivered'[Len(delivered')])
             /\ delivered'[Len(delivered')].ev = LoopDestroyed)]_vars
    /\ [][pc = "Returned" => delivered' = delivered]_vars

\* run_return has returned after a callback asked for the exit, in an iteration that
\* had delivered events
C11_Witness ==
    /\ pc = "Returned"
    /\ last_error = NoError
    /\ Len(delivered) >= 2

\* Whether a NewEvents cause is the one the control flow kind calls for
CauseMatches(kind, cause) ==
    \/ (kind = "Poll" /\ cause = "Poll")
    \/ (kind = "Wait" /\ cause = "WaitCancelled")
    \/ (kind = "WaitUntil" /\ cause \in {"WaitCancelled", "ResumeTimeReached"})

\* The positions of this iteration's history that hold a NewEvents(Init)
InitPositions ==
    {i \in 1..Len(delivered) :
        delivered[i].ev.tag = "NewEvents" /\ delivered[i].ev.cause = "Init"}

\* C12 as stated: NewEvents(Init) is the one new-events notification of the first
\* iteration: the iteration that starts with it delivers no other NewEvents.
C12_InitIsFirstIterationsNewEvents ==
    /\ InitPositions \subseteq {1}
    /\ (delivered # <<>> /\ delivered[1].step = "Init") =>
          \A i \in 2..Len(delivered) : delivered[i].ev.tag # "NewEvents"

\* C12 amended: NewEvents(Init) is delivered exactly once, before the loop is entered
\* (only by the entry of run_return, which is never passed again); every iteration,
\* the first included, then delivers exactly one NewEvents of its own, whose cause
\* matches the control flow active when its dispatch returned.
C12_NewEventsCause ==
    /\ [](InitPositions \subseteq {1})
    /\ [](pc = "Start" => delivered = <<>>)
    /\ [](IterationComplete => Delivered("NewEvents") = 1)
    /\ [][pc # "Start" => (pc' # "Start" /\ InitPositions' \subseteq InitPositions)]_vars
    /\ [][pc = "Start" => InitPositions' = {1}]_vars
    /\ [][(pc = "EventLoopDispatch" /\ pc' = "UserEvents") =>
            /\ Len(delivered') = Len(delivered) + 1
            /\ delivered'[Len(delivered')].ev.tag = "NewEvents"
            /\ CauseMatches(control_flow.kind, delivered'[Len(delivered')].ev.cause)]_vars

\* The first iteration has delivered its own NewEvents after NewEvents(Init)
C12_Witness ==
    /\ Len(delivered) >= 2
    /\ delivered[1].ev = NewEvents("Init")
    /\ delivered[2].ev = NewEvents("ResumeTimeReached")

\* The events the callback received from the sink drain of this iteration
SinkDelivered ==
    LET ds == SelectSeq(delivered, LAMBDA d : d.step = "SinkEvents")
    IN  [i \in 1..Len(ds) |-> ds[i].ev]

\* The sink drain of this iteration is over: it ran to its end or it panicked
DrainOver ==
    \/ pc \in {"MainEventsCleared", "TakeUserRequests", "Redraw"}
    \/ (pc = "Panicked" /\ panic_site = "mod.rs:482")

C8_SinkDeliveredInOrder ==
    DrainOver => (SinkDelivered = swapped /\ panic_site # "mod.rs:482")

\* The exit code the transport error calls for: its OS code if it has one, else 1
ErrorCode(error) == IF error.os # None THEN Unwrap(error.os) ELSE 1

\* C9: after a failed dispatch_pending or event_loop.dispatch the loop has left for
\* good (only LoopDestroyed remains) with the error's OS code, or 1 if it has none.
C9_TransportErrorExit ==
    last_error # NoError =>
        /\ pc \in {"LoopDestroyed", "Returned"}
        /\ exit_code = Some(ErrorCode(last_error))
        /\ Delivered("LoopDestroyed") = (IF pc = "Returned" THEN 1 ELSE 0)

\* run_return has returned the OS code of a failed event_loop.dispatch
C9_Witness ==
    /\ pc = "Returned"
    /\ last_error = [kind |-> "IoError", os |-> Some(32)]
    /\ exit_code = Some(32)

\* C10: when application::run's loop returns without a transport error, its exit
\* code is 0.
C10_CleanShutdownExitsZero ==
    (callback_kind = "run" /\ pc = "Returned" /\ last_error = NoError)
        => exit_code = Some(0)

-----------------------------------------------------------------------------
(* Properties of the popup registry *)

\* Whether the parent chain of popup q in registry reg includes surface p
RECURSIVE InChain(_, _, _)
InChain(reg, q, p) ==
    LET i == Position(reg, q)
    IN  /\ i # 0
        /\ \/ reg[i].parent = p
           \/ (reg[i].parent \in PopupIdsOf(reg) /\ InChain(reg, reg[i].parent, p))

Descendants(reg, p) == {q \in PopupIdsOf(reg) : InChain(reg, q, p)}

\* The last done callback was for a popup the registry tracked
ClosureOfTracked == last_closure.popup \in PopupIdsOf(last_closure.before)

\* C3: when done for a tracked popup P has returned, P and every popup whose parent
\* chain included P are gone from the registry.
C3_DoneRemovesSubtree ==
    (ClosureOfTracked /\ ~last_closure.panicked) =>
        \A q \in {last_closure.popup} \cup Descendants(last_closure.before, last_closure.popup) :
            q \notin PopupIdsOf(last_closure.after)

C5_DescendantsClosedOnce ==
    /\ \A q \in PopupIds : done_count[q] <= 1
    /\ \A i \in 1..Len(last_closure.events) :
          \A q \in Descendants(last_closure.before, last_closure.events[i].id) :
              done_count[q] = 1 /\ q \notin PopupIdsOf(popups)



-----------------------------------------------------------------------------
(* Properties of the protocol callbacks *)

\* Whether the object callback `cb` was made for had a record when it ran. A
\* new_seat callback announces its object.
Tracked(cb) ==
    CASE cb.handler = "new_seat" -> TRUE
      [] cb.handler \in {"remove_seat", "new_capability", "remove_capability"} ->
            cb.target \in SeatIdsOf(cb.before.seats)
      [] cb.handler \in {"keyboard.enter", "keyboard.leave", "keyboard.press_key",
                         "keyboard.release_key", "keyboard.update_modifiers"} ->
            KeyboardPosition(cb.before.seats, cb.target) # 0
      [] cb.handler = "pointer_frame" -> PointerPosition(cb.before.seats, cb.target) # 0
      [] cb.handler \in {"layer.configure", "layer.closed"} ->
            cb.target \in DOMAIN cb.before.layer_surfaces
      [] cb.handler \in {"window.configure", "window.request_close"} ->
            cb.target \in DOMAIN cb.before.windows
      [] cb.handler = "popup.configure" -> cb.target \in PopupIdsOf(cb.before.popups)
      [] cb.handler = "frame" ->
            cb.target \in DOMAIN cb.before.windows \cup DOMAIN cb.before.layer_surfaces
                            \cup PopupIdsOf(cb.before.popups)
      [] OTHER -> FALSE

\* The records a snapshot holds
RegistryOf(snapshot) ==
    <<snapshot.windows, snapshot.layer_surfaces, snapshot.popups, snapshot.seats>>

\* C13: every protocol callback for a tracked object appends exactly one event to
\* the sink sctk_events, and no callback invokes the UI callback itself.
C13_OneEventPerCallback ==
    /\ (last_callback.handler # "-" /\ Tracked(last_callback))
            => Len(last_callback.appended) = 1
    /\ delivered = <<>>

\* C14: a callback for a surface or seat that has no record (never had one, or has
\* it no longer) appends no event to the sink and leaves the registry as it was.
C14_UntrackedDropped ==
    (last_callback.handler # "-" /\ ~Tracked(last_callback))
        => /\ last_callback.appended = <<>>
           /\ RegistryOf(last_callback.after) = RegistryOf(last_callback.before)


\* The close callbacks and the event each pushes
CloseEventOf(cb) ==
    IF cb.handler = "window.request_close" THEN WindowCloseEv(cb.target)
    ELSE LayerDoneEv(cb.target)

\* C15: a close callback for a tracked surface (request_close for a window, closed
\* for a layer surface) removes that surface's record, leaves every other record as
\* it was and appends exactly one Close / Done event carrying the surface's id; a
\* close callback for a surface already closed appends nothing and changes nothing.
C15_CloseOnce ==
    last_callback.handler \in {"window.request_close", "layer.closed"} =>
        LET cb == last_callback
            mine == IF cb.handler = "window.request_close" THEN "windows"
                    ELSE "layer_surfaces"
        IN  IF Tracked(cb)
            THEN /\ cb.appended = <<CloseEventOf(cb)>>
                 /\ DOMAIN cb.after[mine] = DOMAIN cb.before[mine] \ {cb.target}
                 /\ \A x \in DOMAIN cb.after[mine] : cb.after[mine][x] = cb.before[mine][x]
                 /\ \A f \in {"windows", "layer_surfaces", "popups", "seats"} \ {mine} :
                        cb.after[f] = cb.before[f]
            ELSE /\ cb.appended = <<>>
                 /\ RegistryOf(cb.after) = RegistryOf(cb.before)

\* A layer surface has been closed and a second closed callback for it has run
C15_Witness ==
    /\ last_callback.handler = "layer.closed"
    /\ ~Tracked(last_callback)
    /\ \E i \in 1..Len(sctk_events) : sctk_events[i] = LayerDoneEv(last_callback.target)

\* The first flag a Configure event carries, if it carries one: only the popup
\* handler builds its Configure variant with the flag.
FirstFlag(ev) ==
    IF ev.tag = "PopupEvent" THEN Some(ev.cause = "ConfigureFirst") ELSE None

\* The record of surface `id` in a snapshot
RecordOf(snapshot, id) ==
    IF id \in WindowIds THEN snapshot.windows[id]
    ELSE IF id \in LayerIds THEN snapshot.layer_surfaces[id]
    ELSE snapshot.popups[Position(snapshot.popups, id)]

\* C16: for every surface record (window, layer surface, popup) the Configure event
\* of a configure callback carries first = TRUE when it is the first configure since
\* the surface was created and first = FALSE afterwards, and the record's
\* last_configure then holds the payload of that callback.
C16_FirstConfigureFlag ==
    (last_callback.handler \in {"window.configure", "layer.configure", "popup.configure"}
     /\ Tracked(last_callback)) =>
        LET cb == last_callback
            first == cb.before.negotiated[cb.target] = None
        IN  /\ cb.appended # <<>>
            /\ cb.appended[1].cause \in {"Configure", "ConfigureFirst"}
            /\ FirstFlag(cb.appended[1]) = Some(first)
            /\ RecordOf(cb.after, cb.target).last_configure = Some(cb.appended[1].size)


-----------------------------------------------------------------------------
(* Properties of the first configure *)

\* The events a step has appended to the sink
AppendedBy(sink, sink2) == SubSeq(sink2, Len(sink) + 1, Len(sink2))

\* How many events equal to ev a sequence holds
CountOf(events, ev) == Cardinality({i \in 1..Len(events) : events[i] = ev})

\* C17: a surface created with size (W,H) whose first configure carries (W,H)
\* becomes configured with current size exactly (W,H) and gets exactly one redraw
\* for it. For a layer surface the configure is handled by the configure callback
\* (the size given at creation is kept nowhere, so any first size may be it); for
\* a window by the compositor-update branch of the loop, which must leave the
\* size, not panic and leave a redraw scheduled.
C17_FirstConfigureRoundTrip ==
    /\ [][\A l \in LayerIds :
            (l \in DOMAIN layer_surfaces /\ negotiated[l] = None /\ negotiated'[l] # None)
                => /\ layer_surfaces'[l].current_size = negotiated'[l]
                   /\ CountOf(AppendedBy(sctk_events, sctk_events'), DrawEv(l)) = 1]_vars
    /\ [][\A w \in WindowIds :
            (/\ pc = "WindowConfigure"
             /\ w \in DOMAIN windows
             /\ windows[w].current_size # None
             /\ negotiated[w] = None /\ negotiated'[w] # None
             /\ negotiated'[w] = Some(windows[w].current_size))
                => /\ pc' # "Panicked"
                   /\ windows'[w].current_size = windows[w].current_size
                   /\ \/ window_user_requests'[w].redraw_requested
                      \/ window_user_requests'[w].refresh_frame]_vars


-----------------------------------------------------------------------------
(* Properties of run_instance *)

\* All configures a redraw has seen carry the same size
SameSizeOnly(configures) ==
    \A i \in 1..Len(configures) : configures[i] = configures[1]

\* C18: once the first configure of the layer surface has delivered a size, a
\* redraw of the surface is made at that size after exactly one relayout; further
\* configures of the same size add no relayout.
C18_OneRelayoutPerSize ==
    \A k \in 1..Len(instance.presented) :
        LET p == instance.presented[k]
        IN  (p.configures # <<>> /\ SameSizeOnly(p.configures))
                => /\ p.relayouts = 1
                   /\ p.viewport = p.configures[1]

-----------------------------------------------------------------------------
(* Properties of to_native *)

\* The last call projected a key press or release into a UI event
KeyProjected ==
    /\ projected.ev.tag = "KeyboardEvent"
    /\ projected.ev.variant \in {"Press", "Release"}
    /\ projected.result # None

\* C19: over any sequence of calls sharing one modifier state, a KeyPressed or
\* KeyReleased carries the modifiers of the most recent Modifiers event before it
\* (none held if there was no such event), and the shared state always equals the
\* payload of the most recent Modifiers event.
C19_KeysCarryLatestModifiers ==
    /\ modifiers = projected.mods_seen
    /\ KeyProjected =>
          /\ Unwrap(projected.result).kind
                = (IF projected.ev.variant = "Press" THEN "KeyPressed" ELSE "KeyReleased")
          /\ ("SHIFT" \in Unwrap(projected.result).mods) = ("shift" \in projected.mods_before)
          /\ ("CTRL" \in Unwrap(projected.result).mods) = ("ctrl" \in projected.mods_before)

\* C19 witness: after a Modifiers event with shift held, a key press was projected
\* into a KeyPressed carrying SHIFT.
C19_Witness ==
    /\ KeyProjected
    /\ projected.ev.variant = "Press"
    /\ projected.mods_before = {"shift"}
    /\ Unwrap(projected.result).mods = {"SHIFT"}
    /\ modifiers = {"shift"}

\* The last call was on an event that names a surface
CarriesSurface ==
    \/ projected.ev.tag \in {"PointerEvent", "WindowEvent", "LayerSurfaceEvent", "PopupEvent"}
    \/ projected.ev.tag = "KeyboardEvent" /\ projected.ev.variant \in {"Enter", "Leave"}

\* C20: a call on an event whose surface has no entry in the surface id table
\* returns None, for pointer, keyboard enter/leave, window, layer-surface and
\* popup events.
C20_UnknownSurfaceDropped ==
    (/\ CarriesSurface
     /\ projected.ev.id \notin DOMAIN surface_ids
     /\ ~projected.panicked)
        => projected.result = None

-----------------------------------------------------------------------------
(* Properties of keyboard routing *)

\* The keyboard callbacks and the variant of the event each builds
KeyboardVariants ==
    [h \in {"keyboard.enter", "keyboard.leave", "keyboard.press_key",
            "keyboard.release_key", "keyboard.update_modifiers"} |->
        CASE h = "keyboard.enter" -> "Enter"
          [] h = "keyboard.leave" -> "Leave"
          [] h = "keyboard.press_key" -> "Press"
          [] h = "keyboard.release_key" -> "Release"
          [] OTHER -> "Modifiers"]

\* The seat record a keyboard callback of `variant` leaves, given the one it found
RecordAfter(record, variant, record2) ==
    IF variant \in {"Enter", "Leave"}
    THEN record2.kbd_focus # None /\ record2 = [record EXCEPT !.kbd_focus = record2.kbd_focus]
    ELSE IF variant = "Press"
    THEN record2.last_kbd_press # None
         /\ record2 = [record EXCEPT !.last_kbd_press = record2.last_kbd_press]
    ELSE record2 = record

\* C21: a keyboard callback appends an event (one, of its own variant, naming the
\* seat) exactly when its keyboard belongs to the first seat of the list; for a
\* keyboard of any other tracked seat it appends nothing; in both cases it updates
\* that seat's own record (focus on enter/leave, last key press on press) and no
\* other seat's.
C21_ActiveSeatRouting ==
    (last_callback.handler \in DOMAIN KeyboardVariants /\ Tracked(last_callback)) =>
        LET cb == last_callback
            i == KeyboardPosition(cb.before.seats, cb.target)
            variant == KeyboardVariants[cb.handler]
        IN  /\ IF i = 1
               THEN /\ Len(cb.appended) = 1
                    /\ cb.appended[1].tag = "KeyboardEvent"
                    /\ cb.appended[1].cause = variant
                    /\ cb.appended[1].seat = cb.before.seats[1].seat
               ELSE cb.appended = <<>>
            /\ Len(cb.after.seats) = Len(cb.before.seats)
            /\ \A j \in 1..Len(cb.before.seats) :
                  IF j = i THEN RecordAfter(cb.before.seats[j], variant, cb.after.seats[j])
                  ELSE cb.after.seats[j] = cb.before.seats[j]

\* C21 witness: a key press on the keyboard of the second seat has appended nothing
\* and has been recorded in that seat.
C21_Witness ==
    /\ last_callback.handler = "keyboard.press_key"
    /\ KeyboardPosition(last_callback.before.seats, last_callback.target) = 2
    /\ last_callback.appended = <<>>
    /\ last_callback.before.seats[2].last_kbd_press = None
    /\ last_callback.after.seats[2].last_kbd_press # None

-----------------------------------------------------------------------------
(* Properties of run_command *)

\* Whether `part` holds entries of `whole` in the order `whole` has them
InOrderOf(part, whole) ==
    \E f \in [1..Len(part) -> 1..Len(whole)] :
        /\ \A i \in 1..Len(part) : whole[f[i]] = part[i]
        /\ \A i, j \in 1..Len(part) : i < j => f[i] < f[j]

\* C22: run_command applies actions of the batch in the order of the batch, and an
\* action that cannot be applied does not cut the batch short: when run_command is
\* over, no action of the batch is left that it has not gone through.
C22_BatchNeverAborted ==
    /\ InOrderOf(instance.applied, instance.batch)
    /\ pc # "RunCommand" => instance.actions = <<>>

-----------------------------------------------------------------------------
(* Properties of the user events *)

\* The numbers of the user events in a list of events or of invocations
NumbersOf(events) == [i \in 1..Len(events) |-> events[i].factor]
UserEventsIn(invocations) ==
    SelectSeq([i \in 1..Len(invocations) |-> invocations[i].ev],
              LAMBDA e : e.tag = "UserEvent")

\* The user events of this iteration: those delivered, those collected and those
\* still pending, in that order
InFlight == NumbersOf(UserEventsIn(LoopBody)) \o NumbersOf(user_events)
                \o NumbersOf(pending_user_events)

\* The numbers of the user events not yet handed to the callback
Queued(collected, pending) ==
    {collected[i].factor : i \in 1..Len(collected)}
        \cup {pending[i].factor : i \in 1..Len(pending)}

\* The loop is in an iteration, past the delivery of the user events
PastUserEvents ==
    \/ pc \in {"WindowScale", "WindowConfigure", "WindowClose", "DrainSink",
               "MainEventsCleared", "TakeUserRequests", "Redraw"}
    \/ IterationComplete

-----------------------------------------------------------------------------
(* Properties of the redraw requests *)

\* How many RedrawRequested(w) this iteration has delivered
RedrawsOf(w) ==
    Cardinality({i \in 1..Len(LoopBody) : LoopBody[i].ev = RedrawRequested(w)})

\* Whether a request buffer asks for a redraw
NeedsRedraw(request) == request.redraw_requested \/ request.refresh_frame

-----------------------------------------------------------------------------
(* Properties of the MainEventsCleared handler of run_instance *)

\* The surface an event is addressed to, "-" if it names none
TargetOf(e) ==
    IF e.tag \in {"PointerEvent", "WindowEvent", "LayerSurfaceEvent", "PopupEvent",
                  "ScaleFactorChanged", "Draw"}
    THEN e.id ELSE "-"

\* The events of a list addressed to surface s, in the order of the list
AddressedTo(events, s) == SelectSeq(events, LAMBDA e : TargetOf(e) = s)

-----------------------------------------------------------------------------
(* The compositor-update phase of run_return *)

\* The invocations of this iteration that carried a ScaleFactorChanged for w
ScaleDelivered(w) ==
    {i \in 1..Len(delivered) :
        delivered[i].ev.tag = "ScaleFactorChanged" /\ delivered[i].ev.id = w}

\* This step is a scale_factor_changed callback
ScaleCallbackStep ==
    /\ n_inputs' # n_inputs
    /\ last_callback'.handler = "scale_factor_changed"
    /\ last_callback'.before.input = n_inputs'

\* This step invokes the callback with a ScaleFactorChanged
ScaleDeliveryStep ==
    /\ Len(delivered') = Len(delivered) + 1
    /\ delivered'[Len(delivered')].ev.tag = "ScaleFactorChanged"

\* C27: scale-factor changes for a tracked surface are coalesced latest-wins. A
\* scale_factor_changed callback for a tracked window leaves its factor pending
\* whatever was pending before; an iteration delivers at most one
\* ScaleFactorChanged per window, and the one it delivers carries the factor of
\* the last callback for that window; the take at the start of the phase leaves
\* every update buffer at its default, so no update is taken twice.
C27_ScaleFactorLatestWins ==
    /\ [](\A w \in WindowIds : Cardinality(ScaleDelivered(w)) <= 1)
    /\ [][/\ ScaleCallbackStep =>
              LET w == last_callback'.target
              IN  (w \in DOMAIN windows /\ w \in DOMAIN window_compositor_updates) =>
                      window_compositor_updates'[w].scale_factor =
                          Some(last_callback'.before.factor)
          /\ ScaleDeliveryStep =>
              LET e == delivered'[Len(delivered')].ev
              IN  /\ last_callback.handler = "scale_factor_changed"
                  /\ last_callback.target = e.id => e.factor = last_callback.before.factor
          /\ (pc = "UserEventsLoop" /\ pc' = "WindowScale") =>
              \A w \in DOMAIN window_compositor_updates' :
                  window_compositor_updates'[w] = DefaultCompositorUpdate]_vars

\* Factor 1 was pending for W1 when factor 2 arrived; the drain has delivered one
\* ScaleFactorChanged for W1, with factor 2, and W1's buffer is at its default.
C27_Witness ==
    /\ last_callback.handler = "scale_factor_changed"
    /\ last_callback.target = "W1"
    /\ last_callback.before.factor = 2
    /\ last_callback.before.pending = Some(1)
    /\ \E i \in ScaleDelivered("W1") : delivered[i].ev.factor = 2
    /\ Cardinality(ScaleDelivered("W1")) = 1
    /\ window_compositor_updates["W1"] = DefaultCompositorUpdate

\* The place of a compositor-update notification in a window's turn
UpdateRank(ev) ==
    IF ev.tag = "ScaleFactorChanged" THEN 1
    ELSE IF ev.tag = "WindowEvent" /\ ev.cause = "Configure" THEN 2
    ELSE 3

\* The invocations of this iteration's compositor-update phase for window w
UpdatesOf(w) ==
    {i \in 1..Len(delivered) :
        delivered[i].step = "CompositorUpdates" /\ delivered[i].ev.id = w}

\* The event this step hands to the callback
NowDelivered == delivered'[Len(delivered')].ev

\* The update under the loop has both a scale factor and a configure
BothPending ==
    /\ CurrentUpdate.update.scale_factor # None
    /\ CurrentUpdate.update.configure # None

\* C28: in the compositor-update phase the notifications of one window come in the
\* order ScaleFactorChanged, Configure, Close, each at most once. When the taken
\* update has both a scale factor and a configure and the branches run through,
\* the scale-factor branch delivers ScaleFactorChanged, the configure branch
\* delivers Configure after it, and a pending close is delivered after both.
C28_ScaleThenConfigureThenClose ==
    /\ [](\A w \in WindowIds : \A i, j \in UpdatesOf(w) :
            i < j => UpdateRank(delivered[i].ev) < UpdateRank(delivered[j].ev))
    /\ [][/\ (pc = "WindowScale" /\ pc' = "WindowConfigure" /\ BothPending) =>
              /\ Len(delivered') = Len(delivered) + 1
              /\ NowDelivered.tag = "ScaleFactorChanged"
              /\ NowDelivered.id = CurrentUpdate.id
          /\ (pc = "WindowConfigure" /\ pc' = "WindowClose" /\ BothPending) =>
              /\ Len(delivered') = Len(delivered) + 1
              /\ UpdateRank(NowDelivered) = 2
              /\ NowDelivered.id = CurrentUpdate.id
              /\ ScaleDelivered(CurrentUpdate.id) # {}
          /\ (pc = "WindowClose" /\ pc' = "WindowScale"
                  /\ CurrentUpdate.update.close_window) =>
              /\ Len(delivered') = Len(delivered) + 1
              /\ NowDelivered = WindowCloseEv(CurrentUpdate.id)]_vars

\* W1's turn delivered ScaleFactorChanged, then Configure, then Close.
C28_Witness ==
    \E i, j, k \in UpdatesOf("W1") :
        /\ i < j /\ j < k
        /\ UpdateRank(delivered[i].ev) = 1
        /\ UpdateRank(delivered[j].ev) = 2
        /\ delivered[k].ev = WindowCloseEv("W1")

\* The update under the loop has a configure whose size is not the current size
\* of its window
SizeChangePending ==
    /\ CurrentUpdate.update.configure # None
    /\ Unwrap(CurrentUpdate.update.configure).new_size # None
    /\ CurrentUpdate.id \in DOMAIN windows
    /\ windows[CurrentUpdate.id].current_size # None
    /\ windows[CurrentUpdate.id].current_size #
           Unwrap(CurrentUpdate.update.configure).new_size

\* This step delivers a Configure for the window under the loop
ConfigureDelivered ==
    /\ Len(delivered') = Len(delivered) + 1
    /\ NowDelivered =
           WindowConfigureEv(CurrentUpdate.id, Unwrap(CurrentUpdate.update.configure).new_size)

\* C29: when a taken configure carries a size that differs from the window's
\* current size, the current size becomes the new size and the configure branch
\* delivers one Configure for the window. With a scale factor pending the
\* scale-factor branch writes the size and the configure branch delivers; with
\* none pending the configure branch does both.
C29_SizeChangeDeliversConfigure ==
    [][/\ (pc = "WindowScale" /\ compositor_updates_local # <<>>
              /\ CurrentUpdate.update.scale_factor # None /\ SizeChangePending) =>
            windows'[CurrentUpdate.id].current_size =
              Unwrap(CurrentUpdate.update.configure).new_size
       /\ (pc = "WindowConfigure" /\ BothPending
              /\ CurrentUpdate.id \in DOMAIN windows
              /\ windows[CurrentUpdate.id].current_size # None) =>
            ConfigureDelivered
       /\ (pc = "WindowConfigure" /\ CurrentUpdate.update.scale_factor = None
              /\ SizeChangePending) =>
            /\ windows'[CurrentUpdate.id].current_size =
                 Unwrap(CurrentUpdate.update.configure).new_size
            /\ ConfigureDelivered]_vars

\* The same, for the updates that have a scale factor pending
C29_WithScaleFactor ==
    [][/\ (pc = "WindowScale" /\ compositor_updates_local # <<>>
              /\ CurrentUpdate.update.scale_factor # None /\ SizeChangePending) =>
            windows'[CurrentUpdate.id].current_size =
              Unwrap(CurrentUpdate.update.configure).new_size
       /\ (pc = "WindowConfigure" /\ BothPending
              /\ CurrentUpdate.id \in DOMAIN windows
              /\ windows[CurrentUpdate.id].current_size # None) =>
            ConfigureDelivered]_vars

\* The update under the loop has a scale factor, for a window that has a size
ScalePending ==
    /\ CurrentUpdate.update.scale_factor # None
    /\ CurrentUpdate.id \in DOMAIN windows
    /\ windows[CurrentUpdate.id].current_size # None

\* C30: whenever the taken update of a window has a scale factor, the
\* scale-factor branch delivers ScaleFactorChanged for the window and the configure
\* branch then delivers a Configure for it, whether or not the update has a
\* configure and whether or not the size changed.
C30_ScaleFactorForcesConfigure ==
    [][/\ (pc = "WindowScale" /\ compositor_updates_local # <<>> /\ ScalePending) =>
            /\ Len(delivered') = Len(delivered) + 1
            /\ NowDelivered.tag = "ScaleFactorChanged"
            /\ NowDelivered.id = CurrentUpdate.id
       /\ (pc = "WindowConfigure" /\ ScalePending) =>
            /\ Len(delivered') = Len(delivered) + 1
            /\ UpdateRank(NowDelivered) = 2
            /\ NowDelivered.id = CurrentUpdate.id
            /\ ScaleDelivered(CurrentUpdate.id) # {}]_vars

\* The same, for the updates that have a configure as well
C30_WithConfigure ==
    [][/\ (pc = "WindowScale" /\ compositor_updates_local # <<>> /\ ScalePending
              /\ CurrentUpdate.update.configure # None) =>
            /\ Len(delivered') = Len(delivered) + 1
            /\ NowDelivered.tag = "ScaleFactorChanged"
            /\ NowDelivered.id = CurrentUpdate.id
       /\ (pc = "WindowConfigure" /\ ScalePending) =>
            /\ Len(delivered') = Len(delivered) + 1
            /\ UpdateRank(NowDelivered) = 2
            /\ NowDelivered.id = CurrentUpdate.id
            /\ ScaleDelivered(CurrentUpdate.id) # {}]_vars

-----------------------------------------------------------------------------
(* The request queue of a window *)

\* The loop passes the place of its iteration where the user requests are applied
PassesRequestDrain == pc = "TakeUserRequests" /\ pc' = "Redraw"

\* C31: the requests queued for a window are drained once per iteration. When the
\* loop passes the place where user requests are applied, every window's
\* pending_requests is empty, and a queued Title or Redraw request has raised the
\* window's flag in the requests the iteration then takes.
C31_RequestsDrainedEachIteration ==
    [][PassesRequestDrain =>
          \A w \in DOMAIN windows :
              /\ windows'[w].pending_requests = <<>>
              /\ \A i \in 1..Len(windows[w].pending_requests) :
                    windows[w].pending_requests[i] = "Redraw" =>
                        \E j \in 1..Len(user_requests_local') :
                            /\ user_requests_local'[j].id = w
                            /\ user_requests_local'[j].request.redraw_requested]_vars

-----------------------------------------------------------------------------
(* Compositor updates of the other surface kinds *)

\* The loop is in its first iteration: the history still starts with the
\* NewEvents(Init) delivered before the loop
FirstIteration == delivered # <<>> /\ delivered[1].step = "Init"

\* The step that ends the compositor-update phase of an iteration
EndsCompositorUpdates ==
    pc = "WindowScale" /\ compositor_updates_local = <<>> /\ pc' # pc

\* C32: a scale-factor change received for a tracked surface of any kind is
\* delivered by the compositor-update phase that follows. Stated for the first
\* iteration, whose dispatches are the only ones that can have run the callback:
\* when the phase ends and the last scale_factor_changed was for the tracked
\* surface x, window or layer surface, a ScaleFactorChanged for x has been
\* delivered.
C32_EverySurfaceKindDelivered ==
    [][(EndsCompositorUpdates /\ FirstIteration
            /\ last_callback.handler = "scale_factor_changed") =>
          LET x == last_callback.target
          IN  (x \in DOMAIN windows \cup DOMAIN layer_surfaces) =>
                  ScaleDelivered(x) # {}]_vars

\* The same, for windows alone
C32_ForWindows ==
    [][(EndsCompositorUpdates /\ FirstIteration
            /\ last_callback.handler = "scale_factor_changed") =>
          LET x == last_callback.target
          IN  (x \in DOMAIN windows) => ScaleDelivered(x) # {}]_vars

-----------------------------------------------------------------------------
(* Keyboard focus of a seat *)

\* The records, in the registry the last callback left, of the seats whose
\* keyboard the callback was for
SeatsOfCallback ==
    {i \in 1..Len(last_callback.after.seats) :
        last_callback.after.seats[i].kbd = Some(last_callback.target)}

\* C33: a seat's kbd_focus is the surface that holds its keyboard focus. After an
\* enter for the seat's keyboard it is the surface entered; after a leave it is
\* none.
C33_KbdFocusFollowsEnterLeave ==
    /\ last_callback.handler = "keyboard.enter" =>
           \A i \in SeatsOfCallback :
               last_callback.after.seats[i].kbd_focus \in {Some(l) : l \in LayerIds}
    /\ last_callback.handler = "keyboard.leave" =>
           \A i \in SeatsOfCallback : last_callback.after.seats[i].kbd_focus = None

\* The same, after an enter alone
C33_AfterEnter ==
    last_callback.handler = "keyboard.enter" =>
        \A i \in SeatsOfCallback :
            last_callback.after.seats[i].kbd_focus \in {Some(l) : l \in LayerIds}

-----------------------------------------------------------------------------
(* Keyboard events in the update pass *)

\* The keyboard events of a list, in the order of the list
KeyEventsOf(events) == SelectSeq(events, LAMBDA e : e.tag = "KeyboardEvent")

-----------------------------------------------------------------------------
(* The value run_return returns *)

\* C35 as stated: whenever the loop has left and the control flow is
\* ExitWithCode(c), the value the loop left with is c.
C35_ExitCodeAlwaysReturned ==
    (pc = "LoopDestroyed" /\ control_flow.kind = "ExitWithCode") =>
        exit_code = Some(control_flow.code)

\* C35 amended: when the loop has left without a transport error, it has left
\* with the code of the ExitWithCode the control flow holds; that code is the
\* first one asked for, since no invocation of the loop body changes an
\* ExitWithCode; and the value is returned as it is, whatever LoopDestroyed
\* writes.
C35_FirstExitCodeReturned ==
    /\ []((pc = "LoopDestroyed" /\ last_error = NoError) =>
            /\ control_flow.kind = "ExitWithCode"
            /\ exit_code = Some(control_flow.code))
    /\ [][/\ (control_flow.kind = "ExitWithCode" /\ pc # "LoopDestroyed") =>
                control_flow' = control_flow
          /\ pc = "LoopDestroyed" => exit_code' = exit_code]_vars

\* run_return has returned 0, the code asked for first; LoopDestroyed was invoked
\* under it and asked for 1.
C35_Witness ==
    /\ pc = "Returned"
    /\ last_error = NoError
    /\ exit_code = Some(0)
    /\ control_flow = ExitWithCode(1)
    /\ delivered[Len(delivered)].exiting

\* C36: once the control flow is ExitWithCode the loop never enters the blocking
\* dispatch again and goes on to its end: no step taken under ExitWithCode leaves
\* the loop body for event_loop.dispatch, and none ends the run in a panic, so
\* that the break and LoopDestroyed are reached.
C36_ExitReachesLoopDestroyed ==
    [][(control_flow.kind = "ExitWithCode" /\ pc \notin {"LoopDestroyed", "Returned"}) =>
          /\ pc' # "EventLoopDispatch"
          /\ pc' # "Panicked"]_vars

\* The same, without the panics: under ExitWithCode the blocking dispatch is never
\* entered
C36_NeverBlocksAgain ==
    [][(control_flow.kind = "ExitWithCode" /\ pc \notin {"LoopDestroyed", "Returned"}) =>
          pc' # "EventLoopDispatch"]_vars

-----------------------------------------------------------------------------
(* Output events in the update pass *)

\* The output events of a list, in the order of the list
OutputEventsOf(events) ==
    SelectSeq(events, LAMBDA e : e.tag \in {"NewOutput", "UpdateOutput", "RemovedOutput"})

-----------------------------------------------------------------------------
(* The done callback of a popup: completion and frame *)

\* C38: the done handler of a popup runs to its end without a failed lookup,
\* whatever the parent chain of the popup is; a done for a popup the registry does
\* not hold leaves the registry as it was and appends no event.
C38_DoneCompletes ==
    last_closure.popup # "-" =>
        /\ ~last_closure.panicked
        /\ ~ClosureOfTracked =>
              /\ last_closure.after = last_closure.before
              /\ last_closure.events = <<>>

\* The same, for a popup the registry does not hold
C38_UntrackedIgnored ==
    (last_closure.popup # "-" /\ ~ClosureOfTracked) =>
        /\ ~last_closure.panicked
        /\ last_closure.after = last_closure.before
        /\ last_closure.events = <<>>

\* The popups a done for the last closed popup may remove: the popup and those
\* whose parent chain included it
ClosedSubtree ==
    {last_closure.popup} \cup Descendants(last_closure.before, last_closure.popup)

\* C39: a done for popup P leaves in the registry every popup that is neither P
\* nor has P in its parent chain, with the record it had, and appends no Done
\* event for it.
C39_DoneFrame ==
    ClosureOfTracked =>
        \A q \in PopupIdsOf(last_closure.before) \ ClosedSubtree :
            /\ q \in PopupIdsOf(last_closure.after)
            /\ last_closure.after[Position(last_closure.after, q)] =
                   last_closure.before[Position(last_closure.before, q)]
            /\ DoneEventsFor(last_closure.events, q) = 0

-----------------------------------------------------------------------------
(* The interface table across a redraw *)

\* C40: after a RedrawRequested for the registered surface has been handled, the
\* surface's user interface is in the interface table, whether or not the
\* viewport had changed.
C40_InterfaceKeptAcrossRedraw ==
    instance.presented # <<>> => instance.interface

====
